---- MODULE Spec2Model ----
(***************************************************************************)
(* Dataroma-Analyzer: crawl-and-extraction pipeline.                       *)
(*                                                                         *)
(*   SpecParse  DataromaParser.parse_activities   (lib/utils/parsers.py)   *)
(*   SpecHttp   RateLimiter, HTTPClient, CachedHTTPClient                  *)
(*                                                (lib/clients/http_client.py) *)
(*   SpecCrawl  DataromaScraper.scrape_all + CacheService                  *)
(*                         (dataroma_scrape.py, lib/services/cache_service.py) *)
(*   SpecMain   main with --skip-enrichment       (dataroma_scrape.py)     *)
(*   SpecCells  DataromaParser._parse_activity_cells                       *)
(*   SpecRoster DataromaParser.parse_managers_list                         *)
(*   SpecHoldings  DataromaParser.parse_holdings_with_dates                *)
(*   SpecNum    DataromaParser._parse_number, _parse_percentage,           *)
(*              _parse_currency                                            *)
(*                                                                         *)
(* Python sequences are 0-based; the sequences below are 1-based, so the   *)
(* loop index i of the source is i + 1 here.                               *)
(***************************************************************************)
EXTENDS Integers, Sequences, FiniteSets, TLC

VARIABLES
    \* ---- parse_activities ----
    html,             \* the page handed to parse_activities
    p_pc,             \* "start" | "scan" | "done"
    i,                \* scan position in elements
    current_quarter,
    current_year,
    activities,       \* the list being built
    parse_result,     \* the returned list, once p_pc = "done"
    \* ---- _parse_activity_cells ----
    cells_in,         \* the cells handed over: how many, and the text of cells[2]
    ac_pc,            \* "start" | "action" | "typed" | "done"
    action,           \* the action text, stripped
    action_type,
    cell_activity,    \* the returned Activity or NoActivity, once ac_pc = "done"
    \* ---- RateLimiter, HTTPClient, CachedHTTPClient ----
    now,               \* time.time()
    last_request_time, \* RateLimiter.last_request_time
    wait_log,          \* the latest wait_if_needed call: when called, how long it slept,
                       \* when it completed, when the one before completed; calls
                       \* is 0, 1 or 2 for none, one, several calls so far
    html_cache,        \* cache file per key: Absent or [text, mtime]
    h_pc,              \* "idle" | "super_get" | "request" | "fill" | "returned" | "raised"
    h_call,            \* arguments of the get in progress
    attempts,          \* network attempts made by the get in progress
    retries,           \* retries taken by the adapter's Retry in this get
    transients,        \* answers with a status of the forcelist in this get
    conn_failures,     \* connection errors and timeouts in this get
    last_outcome,      \* what the latest attempt met
    attempts_since_wait, \* network attempts since the latest wait_if_needed
    h_response,        \* what HTTPClient.get returned to CachedHTTPClient.get
    h_result,          \* what CachedHTTPClient.get returned
    h_served,          \* "none" | "cache" | "network": where h_result came from
    \* ---- DataromaScraper and CacheService ----
    site_roster,       \* how many managers the roster page of the site lists
    failures_left,     \* fetches that may still fail
    restarts,          \* how often the process was terminated and started again
    calls,             \* scrape_all calls made so far
    force_refresh,     \* argument of the scrape_all call, until line 69 has read it
    c_pc,              \* position inside scrape_all, "idle" between calls
    progress,          \* ScraperProgress
    managers,          \* the roster of the crawl in progress
    m_i,               \* position of the manager being processed
    all_holdings,
    all_activities,
    act,               \* all_activities of _scrape_manager_activities
    page_ok,           \* per activity page fetched for this manager: did the fetch succeed
    page_num,
    pages_to_fetch,
    save_args,         \* arguments of the _save_all_to_cache in progress
    save_kind,         \* "checkpoint" (line 110) | "final" (line 117)
    result,            \* what the latest scrape_all returned
    http_gets,         \* http_client.get calls of the latest scrape_all
    failed,            \* failed fetches of the latest scrape_all
    managers_file,     \* managers.json
    holdings_file,     \* holdings.json
    activities_file,   \* history.json
    metadata_file,     \* metadata.json
    holdings_by_manager, \* holdings_by_manager/{id}.json
    history_by_manager,   \* history_by_manager/{id}.json
    \* ---- parse_managers_list ----
    links,   \* the anchors of the roster page, soup.find_all("a", href=True)
    l_pc,   \* "start" | "scan" | "done"
    l_i,   \* position of the anchor being looked at
    seen_ids,   \* manager ids met so far
    roster_managers,   \* the list parse_managers_list builds and returns
    \* ---- parse_holdings_with_dates ----
    hd_page,   \* the holdings page handed to parse_holdings_with_dates
    wall,   \* datetime.now(), as year and month
    hd_pc,   \* "idle" | "start" | "rows" | "done"
    hd_i,   \* position of the row being looked at
    hd_date,   \* reporting_date of the call in progress
    hd_quarter,   \* current_quarter of the call in progress
    hd_holdings,   \* the list being built
    hd_log,   \* levels of the warnings and errors logged by the call in progress
    hd_returned,   \* what each call so far returned, in order
    \* ---- _parse_number, _parse_percentage, _parse_currency ----
    num_text,   \* the cell text, as its characters
    n_pc,   \* "idle" | "start" | "number" | "percentage" | "done"
    num_out   \* what _parse_number, _parse_percentage and _parse_currency returned or raised

parseVars == <<html, p_pc, i, current_quarter, current_year, activities, parse_result>>

httpVars == <<now, last_request_time, wait_log, html_cache, h_pc, h_call, attempts,
              retries, transients, conn_failures, last_outcome, attempts_since_wait,
              h_response, h_result, h_served>>

memVars == <<calls, force_refresh, c_pc, progress, managers, m_i, all_holdings, all_activities, act,
             page_ok, page_num, pages_to_fetch, save_args, save_kind, result, http_gets, failed>>

diskVars == <<managers_file, holdings_file, activities_file, metadata_file,
              holdings_by_manager, history_by_manager>>

envVars == <<site_roster, failures_left, restarts>>

crawlVars == <<memVars, diskVars, envVars>>

cellsVars == <<cells_in, ac_pc, action, action_type, cell_activity>>

rosterVars == <<links, l_pc, l_i, seen_ids, roster_managers>>

holdVars == <<hd_page, wall, hd_pc, hd_i, hd_date, hd_quarter, hd_holdings, hd_log, hd_returned>>

numVars == <<num_text, n_pc, num_out>>

vars == <<parseVars, cellsVars, httpVars, crawlVars, rosterVars, holdVars, numVars>>

\* what the actions of one component leave alone
notParseVars == <<cellsVars, httpVars, crawlVars, rosterVars, holdVars, numVars>>
notHttpVars == <<parseVars, cellsVars, crawlVars, rosterVars, holdVars, numVars>>
httpButNow == <<last_request_time, wait_log, html_cache, h_pc, h_call, attempts,
                retries, transients, conn_failures, last_outcome, attempts_since_wait,
                h_response, h_result, h_served>>
notCrawlVars == <<parseVars, cellsVars, httpVars, rosterVars, holdVars, numVars>>
notCellsVars == <<parseVars, httpVars, crawlVars, rosterVars, holdVars, numVars>>
notRosterVars == <<parseVars, cellsVars, httpVars, crawlVars, holdVars, numVars>>
notHoldVars == <<parseVars, cellsVars, httpVars, crawlVars, rosterVars, numVars>>
notNumVars == <<parseVars, cellsVars, httpVars, crawlVars, rosterVars, holdVars>>

(***************************************************************************)
(* Bounds                                                                  *)
(***************************************************************************)
MaxLen == 11          \* longest list of tbody children
MaxOther == 2         \* most children that are not bare <td> cells
MaxWords == 3         \* longest text of an action cell, in words
MaxClock == 6         \* no call starts and no idle time passes from this time on
Delay == 2            \* RateLimiter(delay), in clock ticks
CacheTtl == 2         \* CachedHTTPClient(cache_ttl), in clock ticks
MaxManagers == 11     \* longest roster
MaxFailures == 1      \* fetches that fail
MaxRestarts == 1      \* process terminations
MaxCalls == 2         \* scrape_all calls
MaxCrawlTicks == 2    \* clock ticks between scrape_all calls
MaxEvents == 4        \* calls, failed fetches, terminations and ticks together
TickHours == 12       \* hours in one clock tick of the crawl
MaxAnchors == 3       \* most anchors on a roster page
MaxLinkWords == 4     \* longest link text, in words
MaxChars == 4         \* longest text of a numeric cell, in characters
MaxRows == 2          \* most <tr> rows of a holdings table
MaxMentions == 1      \* most dates written on a holdings page
MaxWallTicks == 1     \* months that pass while a holdings page is parsed twice

(***************************************************************************)
(* Children of <tbody>                                                     *)
(***************************************************************************)
TextNode == [name |-> "#text", class |-> "", text |-> <<>>]
Td == [name |-> "td", class |-> "", text |-> <<>>]
PlainRow == [name |-> "tr", class |-> "", text |-> <<>>]
QuarterHeader(words) == [name |-> "tr", class |-> "q_chg", text |-> words]

\* the texts a header row can carry, as its words
HeaderTexts == { <<"Q2", "2019">>, <<"Q3", "2020">>, <<"Portfolio", "Activity">> }

NonCell == {TextNode, PlainRow} \cup { QuarterHeader(w) : w \in HeaderTexts }

IsTag(e) == e.name # "#text"

Quarters == {"Q1", "Q2", "Q3", "Q4"}
Years == {"2019", "2020"}

\* re.search(r"(Q[1-4])\s+(\d{4})", text): the first place where a quarter
\* word is followed by a four-digit word; <<>> when there is none
QuarterMatch(text) ==
    LET hits == { k \in 1..(Len(text) - 1) : text[k] \in Quarters /\ text[k + 1] \in Years }
    IN  IF hits = {} THEN <<>>
        ELSE LET k == CHOOSE m \in hits : \A n \in hits : m <= n
             IN  <<text[k], text[k + 1]>>

\* the inner while loop: from position j, take <td> elements until five are
\* collected or the list ends; every other element met on the way is passed over
RECURSIVE CollectCells(_, _, _)
CollectCells(els, j, activity_cells) ==
    IF j <= Len(els) /\ Len(activity_cells) < 5
    THEN CollectCells(els, j + 1,
                      IF IsTag(els[j]) /\ els[j].name = "td"
                      THEN Append(activity_cells, j) ELSE activity_cells)
    ELSE [cells |-> activity_cells, j |-> j]

\* Optional[Activity]: no Activity
NoActivity == [none |-> TRUE]

\* _parse_activity_cells: an Activity is identified by the cells it is decoded
\* from (symbol and company from cells[1], action from cells[2], shares from
\* cells[3], percentage from cells[4] of the source) and its period
ParseActivityCells(cells, manager_id, quarter, year) ==
    IF Len(cells) < 5 THEN NoActivity
    ELSE [date |-> IF quarter # "" /\ year # "" THEN quarter \o " " \o year ELSE "Unknown",
          cells |-> cells,
          manager_id |-> manager_id]

ManagerId == "BRK"

(***************************************************************************)
(* parse_activities, one action per turn of the outer loop                 *)
(***************************************************************************)
ParseNoTable ==
    /\ p_pc = "start"
    /\ ~(html.grid /\ html.tbody)
    /\ p_pc' = "done"
    /\ parse_result' = activities
    /\ UNCHANGED <<html, i, current_quarter, current_year, activities>>
    /\ UNCHANGED notParseVars

ParseBegin ==
    /\ p_pc = "start"
    /\ html.grid /\ html.tbody
    /\ p_pc' = "scan"
    /\ i' = 1
    /\ current_quarter' = ""
    /\ current_year' = ""
    /\ UNCHANGED <<html, activities, parse_result>>
    /\ UNCHANGED notParseVars

ParseSkipNonTag ==
    /\ p_pc = "scan"
    /\ i <= Len(html.elements)
    /\ ~IsTag(html.elements[i])
    /\ i' = i + 1
    /\ UNCHANGED <<html, p_pc, current_quarter, current_year, activities, parse_result>>
    /\ UNCHANGED notParseVars

ParseHeader ==
    /\ p_pc = "scan"
    /\ i <= Len(html.elements)
    /\ LET element == html.elements[i]
           quarter_match == QuarterMatch(element.text)
       IN  /\ IsTag(element)
           /\ element.name = "tr" /\ element.class = "q_chg"
           /\ IF quarter_match # <<>>
              THEN /\ current_quarter' = quarter_match[1]
                   /\ current_year' = quarter_match[2]
              ELSE UNCHANGED <<current_quarter, current_year>>
    /\ i' = i + 1
    /\ UNCHANGED <<html, p_pc, activities, parse_result>>
    /\ UNCHANGED notParseVars

ParseCellsMutNoCarry ==
    /\ p_pc = "scan"
    /\ i <= Len(html.elements)
    /\ IsTag(html.elements[i])
    /\ html.elements[i].name = "td"
    /\ LET c == CollectCells(html.elements, i, <<>>)
           activity == ParseActivityCells(c.cells, ManagerId, current_quarter, current_year)
       IN  /\ IF Len(c.cells) >= 5 /\ activity # NoActivity
              THEN /\ activities' = Append(activities, activity)
                   /\ current_quarter' = ""
                   /\ current_year' = ""
              ELSE UNCHANGED <<activities, current_quarter, current_year>>
           /\ i' = c.j
    /\ UNCHANGED <<html, p_pc, parse_result>>
    /\ UNCHANGED notParseVars

ParseCellsMutShortGroup ==
    /\ p_pc = "scan"
    /\ i <= Len(html.elements)
    /\ IsTag(html.elements[i])
    /\ html.elements[i].name = "td"
    /\ LET c == CollectCells(html.elements, i, <<>>)
           activity == [date |-> "Unknown", cells |-> c.cells, manager_id |-> ManagerId]
       IN  /\ activities' = Append(activities, activity)
           /\ i' = c.j
    /\ UNCHANGED <<html, p_pc, current_quarter, current_year, parse_result>>
    /\ UNCHANGED notParseVars

ParseCells ==
    /\ p_pc = "scan"
    /\ i <= Len(html.elements)
    /\ IsTag(html.elements[i])
    /\ html.elements[i].name = "td"
    /\ LET c == CollectCells(html.elements, i, <<>>)
           activity == ParseActivityCells(c.cells, ManagerId, current_quarter, current_year)
       IN  /\ IF Len(c.cells) >= 5 /\ activity # NoActivity
              THEN activities' = Append(activities, activity)
              ELSE UNCHANGED activities
           /\ i' = c.j
    /\ UNCHANGED <<html, p_pc, current_quarter, current_year, parse_result>>
    /\ UNCHANGED notParseVars

ParseOther ==
    /\ p_pc = "scan"
    /\ i <= Len(html.elements)
    /\ LET element == html.elements[i]
       IN  /\ IsTag(element)
           /\ ~(element.name = "tr" /\ element.class = "q_chg")
           /\ element.name # "td"
    /\ i' = i + 1
    /\ UNCHANGED <<html, p_pc, current_quarter, current_year, activities, parse_result>>
    /\ UNCHANGED notParseVars

ParseReturn ==
    /\ p_pc = "scan"
    /\ i > Len(html.elements)
    /\ p_pc' = "done"
    /\ parse_result' = activities
    /\ UNCHANGED <<html, i, current_quarter, current_year, activities>>
    /\ UNCHANGED notParseVars

(***************************************************************************)
(* _parse_activity_cells and _extract_action_type.  A text is a sequence   *)
(* of words separated by single blanks; the word " " stands for further    *)
(* white space, "+" and "-" for a word that starts with that sign.         *)
(***************************************************************************)
Words == {" ", "Buy", "New", "Add", "Reduce", "Sell", "Sold", "All", "Out", "Exit",
          "+", "-", "5%"}

\* str.lower(), word by word
Lower(w) ==
    CASE w = "Buy" -> "buy"
      [] w = "New" -> "new"
      [] w = "Add" -> "add"
      [] w = "Reduce" -> "reduce"
      [] w = "Sell" -> "sell"
      [] w = "Sold" -> "sold"
      [] w = "All" -> "all"
      [] w = "Out" -> "out"
      [] w = "Exit" -> "exit"
      [] OTHER -> w

LowerText(text) == [k \in 1..Len(text) |-> Lower(text[k])]

\* str.strip()
RECURSIVE LStrip(_)
LStrip(text) == IF text # <<>> /\ Head(text) = " " THEN LStrip(Tail(text)) ELSE text
RECURSIVE RStrip(_)
RStrip(text) ==
    IF text # <<>> /\ text[Len(text)] = " " THEN RStrip(SubSeq(text, 1, Len(text) - 1))
    ELSE text
Strip(text) == RStrip(LStrip(text))

\* needle in text, the needle given as its words
In(needle, text) ==
    \E k \in 1..(Len(text) - Len(needle) + 1) :
        SubSeq(text, k, k + Len(needle) - 1) = needle

\* _extract_action_type
ExtractActionType(action_text) ==
    IF action_text = <<>> THEN ""
    ELSE LET action_lower == LowerText(action_text)
         IN  IF In(<<"buy">>, action_lower) THEN "Buy"
             ELSE IF In(<<"add">>, action_lower) THEN "Add"
             ELSE IF In(<<"reduce">>, action_lower) THEN "Reduce"
             ELSE IF In(<<"sell">>, action_lower) \/ In(<<"sold">>, action_lower) THEN "Sell"
             ELSE "Hold"

\* the cell lists handed to _parse_activity_cells
CellTexts == UNION { [1..n -> Words] : n \in 0..MaxWords }
CellInputs == { [n |-> 5, action_text |-> t] : t \in CellTexts }
                \cup { [n |-> 4, action_text |-> <<>>] }

\* lines 302-303: fewer than five cells
CellsTooFew ==
    /\ ac_pc = "start"
    /\ cells_in.n < 5
    /\ cell_activity' = NoActivity
    /\ ac_pc' = "done"
    /\ UNCHANGED <<cells_in, action, action_type>>
    /\ UNCHANGED notCellsVars

\* lines 328-330: the action cell
CellsReadAction ==
    /\ ac_pc = "start"
    /\ cells_in.n >= 5
    /\ action' = Strip(cells_in.action_text)
    /\ ac_pc' = "action"
    /\ UNCHANGED <<cells_in, action_type, cell_activity>>
    /\ UNCHANGED notCellsVars

\* lines 344-345
CellsActionType ==
    /\ ac_pc = "action"
    /\ action_type' = ExtractActionType(action)
    /\ ac_pc' = "typed"
    /\ UNCHANGED <<cells_in, action, cell_activity>>
    /\ UNCHANGED notCellsVars

\* lines 347-356: the Activity, for a group under the header Q2 2019
CellsReturn ==
    /\ ac_pc = "typed"
    /\ cell_activity' = ParseActivityCells(<<1, 2, 3, 4, 5>>, ManagerId, "Q2", "2019")
                          @@ [action |-> action, action_type |-> action_type]
    /\ ac_pc' = "done"
    /\ UNCHANGED <<cells_in, action, action_type>>
    /\ UNCHANGED notCellsVars

\* no call of _parse_activity_cells
CellsIdle ==
    /\ cells_in = [n |-> 4, action_text |-> <<>>]
    /\ ac_pc = "start"
    /\ action = <<>>
    /\ action_type = ""
    /\ cell_activity = NoActivity

CellsNext ==
    \/ CellsTooFew
    \/ CellsReadAction
    \/ CellsActionType
    \/ CellsReturn

(***************************************************************************)
(* parse_managers_list.  An href is the sequence of its pieces: a path     *)
(* ending in "?", then "m=" or another parameter name, then the value.     *)
(* A link text is a sequence of words as above; the word "-" is a dash     *)
(* standing alone.                                                         *)
(***************************************************************************)
\* the hrefs of the holdings pages of two managers, and of an activity page
Hrefs ==
    { <<"/m/holdings.php?", "m=", code>> : code \in {"BRK", "GFT"} }
    \cup { <<"/m/m_activity.php?", "m=", "BRK", "&typ=a">> }

LinkTexts == UNION { [1..n -> {" ", "-", "Ann"}] : n \in 0..MaxLinkWords }

\* the pieces of a string put together again
RECURSIVE Join(_)
Join(pieces) == IF pieces = <<>> THEN "" ELSE Head(pieces) \o Join(Tail(pieces))

\* href.split("m=")[-1]
AfterLastM(href) ==
    LET at == { k \in 1..Len(href) : href[k] = "m=" }
    IN  IF at = {} THEN Join(href)
        ELSE LET k == CHOOSE m \in at : \A n \in at : n <= m
             IN  Join(SubSeq(href, k + 1, Len(href)))

\* positions of a dash with a blank on either side: the places of " - "
Separators(text) == { k \in 2..(Len(text) - 1) : text[k] = "-" }

\* lines 61-68: manager_text.split(" - ", 1) and what is made of the parts
SplitNameFirm(manager_text) ==
    LET at == Separators(manager_text)
    IN  IF at = {} THEN [name |-> manager_text, firm |-> <<>>]
        ELSE LET k == CHOOSE m \in at : \A n \in at : m <= n
             IN  [name |-> Strip(SubSeq(manager_text, 1, k - 1)),
                  firm |-> Strip(SubSeq(manager_text, k + 1, Len(manager_text)))]

\* Manager(id, name, firm, portfolio_value=0)
NewManager(manager_id, manager_text) ==
    [id |-> manager_id,
     name |-> SplitNameFirm(manager_text).name,
     firm |-> SplitNameFirm(manager_text).firm,
     portfolio_value |-> 0]

RosterBegin ==
    /\ l_pc = "start"
    /\ l_pc' = "scan"
    /\ l_i' = 1
    /\ seen_ids' = {}
    /\ roster_managers' = <<>>
    /\ UNCHANGED links
    /\ UNCHANGED notRosterVars

\* line 50: an anchor whose href lacks "/m/holdings.php?m="
RosterSkipLink ==
    /\ l_pc = "scan"
    /\ l_i <= Len(links)
    /\ ~In(<<"/m/holdings.php?", "m=">>, links[l_i].href)
    /\ l_i' = l_i + 1
    /\ UNCHANGED <<links, l_pc, seen_ids, roster_managers>>
    /\ UNCHANGED notRosterVars

\* lines 50-77: an anchor of a holdings page
RosterLinkMutNoSeen ==
    /\ l_pc = "scan"
    /\ l_i <= Len(links)
    /\ In(<<"/m/holdings.php?", "m=">>, links[l_i].href)
    /\ LET manager_id == AfterLastM(links[l_i].href)
           manager_text == Strip(links[l_i].text)
       IN  /\ seen_ids' = seen_ids \cup {manager_id}
           /\ roster_managers' = Append(roster_managers, NewManager(manager_id, manager_text))
    /\ l_i' = l_i + 1
    /\ UNCHANGED <<links, l_pc>>
    /\ UNCHANGED notRosterVars

RosterLink ==
    /\ l_pc = "scan"
    /\ l_i <= Len(links)
    /\ In(<<"/m/holdings.php?", "m=">>, links[l_i].href)
    /\ LET manager_id == AfterLastM(links[l_i].href)
           manager_text == Strip(links[l_i].text)
       IN  IF manager_id \in seen_ids
           THEN UNCHANGED <<seen_ids, roster_managers>>
           ELSE /\ seen_ids' = seen_ids \cup {manager_id}
                /\ roster_managers' = Append(roster_managers,
                                             NewManager(manager_id, manager_text))
    /\ l_i' = l_i + 1
    /\ UNCHANGED <<links, l_pc>>
    /\ UNCHANGED notRosterVars

\* lines 79-80
RosterReturn ==
    /\ l_pc = "scan"
    /\ l_i > Len(links)
    /\ l_pc' = "done"
    /\ UNCHANGED <<links, l_i, seen_ids, roster_managers>>
    /\ UNCHANGED notRosterVars

RosterIdle ==
    /\ links = <<>>
    /\ l_pc = "start"
    /\ l_i = 1
    /\ seen_ids = {}
    /\ roster_managers = <<>>

RosterNext ==
    \/ RosterBegin
    \/ RosterSkipLink
    \/ RosterLink
    \/ RosterReturn

\* the roster pages: the anchors at odd places carry one text, those at even
\* places that text without its first word
RosterPages ==
    { [k \in 1..Len(h) |->
          [href |-> h[k],
           text |-> IF k % 2 = 1 \/ t = <<>> THEN t ELSE Tail(t)]] :
        h \in UNION { [1..n -> Hrefs] : n \in 0..MaxAnchors },
        t \in LinkTexts }

(***************************************************************************)
(* parse_holdings_with_dates, _parse_holding_row, _extract_stock_info      *)
(***************************************************************************)
\* a stock cell: has it an <a>, the symbol after "sym=" in its href (<<>> when
\* the href has none), the text of the <a> or of the cell, the text of the
\* <span> inside the <a>
StockCell(link, sym, text, span) == [link |-> link, sym |-> sym, text |-> text, span |-> span]

StockCells ==
    { StockCell(TRUE, <<"AAPL">>, <<"AAPL", "-", "Apple">>, <<"-", "Apple">>),
      StockCell(TRUE, <<>>, <<"MSFT">>, <<>>),
      StockCell(TRUE, <<>>, <<" ">>, <<>>),
      StockCell(FALSE, <<>>, <<"MSFT">>, <<>>),
      StockCell(FALSE, <<>>, <<"AAPL", "-", "Apple">>, <<>>),
      StockCell(FALSE, <<>>, <<>>, <<>>) }

\* a <tr>: how many <td> it has, whether the first has class "hist", and the
\* stock cell (cells[1] with a history cell, cells[0] without)
TableRows ==
    { [n |-> 0, hist |-> FALSE, stock |-> StockCell(FALSE, <<>>, <<>>, <<>>)],
      [n |-> 7, hist |-> FALSE, stock |-> StockCell(TRUE, <<"AAPL">>, <<"AAPL">>, <<>>)] }
    \cup { [n |-> 8, hist |-> FALSE, stock |-> c] : c \in StockCells }
    \cup { [n |-> 12, hist |-> TRUE, stock |-> c] : c \in StockCells }

\* the dates written in the page text, in document order, each with the word
\* before it
DateMentions ==
    { [lead |-> "Updated", date |-> "Mar 31, 2025"],
      [lead |-> "As of", date |-> "Jun 30, 2025"],
      [lead |-> "", date |-> "Sep 30, 2025"] }

\* _extract_reporting_date: the three patterns, tried in order
ExtractReportingDate(mentions) ==
    LET First(S) == IF S = {} THEN 0 ELSE CHOOSE a \in S : \A b \in S : a <= b
        updated == First({ k \in 1..Len(mentions) : mentions[k].lead = "Updated" })
        as_of == First({ k \in 1..Len(mentions) : mentions[k].lead = "As of" })
    IN  IF updated # 0 THEN mentions[updated].date
        ELSE IF as_of # 0 THEN mentions[as_of].date
        ELSE IF mentions # <<>> THEN mentions[1].date
        ELSE ""

\* _extract_current_quarter: f"Q{quarter} {now.year}" of datetime.now()
ExtractCurrentQuarter(t) ==
    LET QuarterName(q) ==
            CASE q = 1 -> "Q1" [] q = 2 -> "Q2" [] q = 3 -> "Q3" [] OTHER -> "Q4"
        YearName(y) == CASE y = 2025 -> "2025" [] y = 2026 -> "2026" [] OTHER -> "2027"
    IN  QuarterName((t.month - 1) \div 3 + 1) \o " " \o YearName(t.year)

\* str.lstrip("- "): leading dashes and blanks dropped
RECURSIVE LStripDash(_)
LStripDash(text) ==
    IF text # <<>> /\ Head(text) \in {"-", " "} THEN LStripDash(Tail(text)) ELSE text

\* _extract_stock_info
ExtractStockInfo(cell) ==
    IF cell.link
    THEN [symbol |-> IF cell.sym # <<>> THEN cell.sym ELSE Strip(cell.text),
          company_name |-> Strip(LStripDash(Strip(cell.span)))]
    ELSE LET text == Strip(cell.text)
         IN  IF Separators(text) # {}
             THEN [symbol |-> SplitNameFirm(text).name,
                   company_name |-> SplitNameFirm(text).firm]
             ELSE [symbol |-> text, company_name |-> <<>>]

\* Optional[Holding]: no Holding
NoHolding == [none |-> TRUE]

\* _parse_holding_row; the numeric fields are decoded from the cells of the
\* row alone, so a Holding is identified by its row, its stock and its dates
ParseHoldingRow(rows, k, manager_id, reporting_date, quarter) ==
    LET info == ExtractStockInfo(rows[k].stock)
    IN  IF rows[k].n < 8 \/ info.symbol = <<>> THEN NoHolding
        ELSE [symbol |-> info.symbol,
              company_name |-> info.company_name,
              manager_id |-> manager_id,
              row |-> k,
              reporting_date |-> reporting_date,
              reporting_quarter |-> quarter]

\* lines 390-395, and 398-404 when there is no table
HoldingsNoTable ==
    /\ hd_pc = "start"
    /\ ~hd_page.grid
    /\ hd_pc' = "done"
    /\ hd_date' = ExtractReportingDate(hd_page.mentions)
    /\ hd_quarter' = ExtractCurrentQuarter(wall)
    /\ hd_returned' = Append(hd_returned, <<>>)
    /\ UNCHANGED <<hd_page, wall, hd_i, hd_holdings, hd_log>>
    /\ UNCHANGED notHoldVars

\* lines 390-406
HoldingsBegin ==
    /\ hd_pc = "start"
    /\ hd_page.grid
    /\ hd_pc' = "rows"
    /\ hd_i' = 1
    /\ hd_date' = ExtractReportingDate(hd_page.mentions)
    /\ hd_quarter' = ExtractCurrentQuarter(wall)
    /\ UNCHANGED <<hd_page, wall, hd_holdings, hd_log, hd_returned>>
    /\ UNCHANGED notHoldVars

\* lines 412-414: a row with fewer than eight cells
HoldingsShortRow ==
    /\ hd_pc = "rows"
    /\ hd_i <= Len(hd_page.rows)
    /\ hd_page.rows[hd_i].n < 8
    /\ hd_i' = hd_i + 1
    /\ UNCHANGED <<hd_page, wall, hd_pc, hd_date, hd_quarter, hd_holdings, hd_log, hd_returned>>
    /\ UNCHANGED notHoldVars

\* lines 416-422: _parse_holding_row catches what its body raises, so the
\* handler of line 420 is not entered
HoldingsRow ==
    /\ hd_pc = "rows"
    /\ hd_i <= Len(hd_page.rows)
    /\ hd_page.rows[hd_i].n >= 8
    /\ LET holding == ParseHoldingRow(hd_page.rows, hd_i, ManagerId, hd_date, hd_quarter)
       IN  IF holding # NoHolding
           THEN hd_holdings' = Append(hd_holdings, holding)
           ELSE UNCHANGED hd_holdings
    /\ hd_i' = hd_i + 1
    /\ UNCHANGED <<hd_page, wall, hd_pc, hd_date, hd_quarter, hd_log, hd_returned>>
    /\ UNCHANGED notHoldVars

\* lines 424-425
HoldingsReturn ==
    /\ hd_pc = "rows"
    /\ hd_i > Len(hd_page.rows)
    /\ hd_pc' = "done"
    /\ hd_returned' = Append(hd_returned, hd_holdings)
    /\ UNCHANGED <<hd_page, wall, hd_i, hd_date, hd_quarter, hd_holdings, hd_log>>
    /\ UNCHANGED notHoldVars

\* the same page is parsed once more
HoldingsAgain ==
    /\ hd_pc = "done"
    /\ Len(hd_returned) < 2
    /\ hd_pc' = "start"
    /\ hd_i' = 1
    /\ hd_holdings' = <<>>
    /\ hd_log' = <<>>
    /\ UNCHANGED <<hd_page, wall, hd_date, hd_quarter, hd_returned>>
    /\ UNCHANGED notHoldVars

\* datetime.now() when the first call is made
WallStart == {[year |-> 2025, month |-> 5], [year |-> 2025, month |-> 12]}

\* a month of wall-clock time passes between two calls
WallTick ==
    /\ hd_pc = "done"
    /\ Len(hd_returned) < 2
    /\ LET MonthsOn(t) == 12 * t.year + t.month
       IN  \E start \in WallStart :
               MonthsOn(wall) - MonthsOn(start) \in 0..(MaxWallTicks - 1)
    /\ wall' = IF wall.month = 12 THEN [year |-> wall.year + 1, month |-> 1]
               ELSE [year |-> wall.year, month |-> wall.month + 1]
    /\ UNCHANGED <<hd_page, hd_pc, hd_i, hd_date, hd_quarter, hd_holdings, hd_log, hd_returned>>
    /\ UNCHANGED notHoldVars

HoldingsIdle ==
    /\ hd_page = [grid |-> FALSE, rows |-> <<>>, mentions |-> <<>>]
    /\ wall = [year |-> 2025, month |-> 5]
    /\ hd_pc = "idle"
    /\ hd_i = 1
    /\ hd_date = ""
    /\ hd_quarter = ""
    /\ hd_holdings = <<>>
    /\ hd_log = <<>>
    /\ hd_returned = <<>>

HoldingsNext ==
    \/ HoldingsNoTable
    \/ HoldingsBegin
    \/ HoldingsShortRow
    \/ HoldingsRow
    \/ HoldingsReturn
    \/ HoldingsAgain
    \/ WallTick

HoldingsPages ==
    { [grid |-> TRUE, rows |-> r, mentions |-> d] :
        r \in UNION { [1..n -> TableRows] : n \in 0..MaxRows },
        d \in UNION { [1..n -> DateMentions] : n \in 0..MaxMentions } }
    \cup { [grid |-> FALSE, rows |-> <<>>, mentions |-> <<>>] }

(***************************************************************************)
(* _parse_number, _parse_percentage, _parse_currency.  A text is the       *)
(* sequence of its characters; a float is its decimal digits as an integer *)
(* and the number of those after the point, without trailing zeros.        *)
(***************************************************************************)
Digits == {"0", "1"}

\* int() of a run of digits
RECURSIVE IntOf(_)
IntOf(digits) ==
    IF digits = <<>> THEN 0
    ELSE 10 * IntOf(SubSeq(digits, 1, Len(digits) - 1)) + (IF digits[Len(digits)] = "1" THEN 1 ELSE 0)

\* a decimal without trailing zeros after the point
RECURSIVE Normal(_)
Normal(x) ==
    IF x.scale > 0 /\ x.mant % 10 = 0
    THEN Normal([mant |-> x.mant \div 10, scale |-> x.scale - 1])
    ELSE x

Zero == [mant |-> 0, scale |-> 0]

\* re.sub(r'[...]', '', text) and str.replace(c, ''): the characters of a set removed
Without(text, chars) == SelectSeq(text, LAMBDA c : c \notin chars)

ValueError == [exception |-> "ValueError"]

\* float(text): blanks at both ends dropped, an optional sign, digits with at
\* most one point and at least one digit; everything else raises ValueError
Float(text) ==
    LET t == Strip(text)
        neg == t # <<>> /\ Head(t) = "-"
        body == IF neg THEN Tail(t) ELSE t
        points == { k \in 1..Len(body) : body[k] = "." }
        digits == Without(body, {"."})
    IN  IF /\ \A k \in 1..Len(body) : body[k] \in Digits \cup {"."}
           /\ Cardinality(points) <= 1
           /\ digits # <<>>
        THEN LET scale == IF points = {} THEN 0
                          ELSE Len(body) - (CHOOSE k \in points : TRUE)
                 x == Normal([mant |-> IntOf(digits), scale |-> scale])
             IN  [mant |-> IF neg THEN 0 - x.mant ELSE x.mant, scale |-> x.scale]
        ELSE ValueError

\* except ValueError
ExceptValueErrorMutNone(outcome) == FALSE

ExceptValueError(outcome) == outcome = ValueError

\* what a call gives: the value returned, or the exception raised
Outcome(raised, value) == [raised |-> raised, value |-> value]

\* re.search(r'\d+', text).group(): the first run of digits, <<>> for no match
FirstDigits(text) ==
    LET at == { k \in 1..Len(text) : text[k] \in Digits }
    IN  IF at = {} THEN <<>>
        ELSE LET a == CHOOSE k \in at : \A n \in at : k <= n
                 ends == { b \in a..Len(text) :
                             /\ \A k \in a..b : text[k] \in Digits
                             /\ (b = Len(text) \/ text[b + 1] \notin Digits) }
             IN  SubSeq(text, a, CHOOSE b \in ends : TRUE)

\* _parse_number
ParseNumber(text) ==
    IF text = <<>> THEN Outcome(FALSE, 0)
    ELSE LET match == FirstDigits(Without(text, {",", " "}))
         IN  IF match # <<>> THEN Outcome(FALSE, IntOf(match)) ELSE Outcome(FALSE, 0)

\* _parse_percentage
ParsePercentage(text) ==
    IF text = <<>> THEN Outcome(FALSE, Zero)
    ELSE LET outcome == Float(Strip(Without(text, {"%"})))
         IN  IF outcome # ValueError THEN Outcome(FALSE, outcome)
             ELSE IF ExceptValueError(outcome) THEN Outcome(FALSE, Zero)
             ELSE Outcome(TRUE, outcome)

\* _parse_currency
ParseCurrency(text) ==
    IF text = <<>> THEN Outcome(FALSE, Zero)
    ELSE LET outcome == Float(Without(text, {"$", ",", " "}))
         IN  IF outcome # ValueError THEN Outcome(FALSE, outcome)
             ELSE IF ExceptValueError(outcome) THEN Outcome(FALSE, Zero)
             ELSE Outcome(TRUE, outcome)

\* nothing returned yet
NoOutcomes ==
    LET none == [raised |-> FALSE, value |-> "none"]
    IN  [number |-> none, percentage |-> none, currency |-> none]

NumParseNumber ==
    /\ n_pc = "start"
    /\ num_out' = [num_out EXCEPT !.number = ParseNumber(num_text)]
    /\ n_pc' = "number"
    /\ UNCHANGED num_text
    /\ UNCHANGED notNumVars

NumParsePercentage ==
    /\ n_pc = "number"
    /\ num_out' = [num_out EXCEPT !.percentage = ParsePercentage(num_text)]
    /\ n_pc' = "percentage"
    /\ UNCHANGED num_text
    /\ UNCHANGED notNumVars

NumParseCurrency ==
    /\ n_pc = "percentage"
    /\ num_out' = [num_out EXCEPT !.currency = ParseCurrency(num_text)]
    /\ n_pc' = "done"
    /\ UNCHANGED num_text
    /\ UNCHANGED notNumVars

NumIdle ==
    /\ num_text = <<>>
    /\ n_pc = "idle"
    /\ num_out = NoOutcomes

NumNext ==
    \/ NumParseNumber
    \/ NumParsePercentage
    \/ NumParseCurrency

NumTexts == UNION { [1..n -> {"$", ",", " ", "%", ".", "-", "1", "0", "N"}] : n \in 0..MaxChars }

(***************************************************************************)
(* RateLimiter                                                             *)
(***************************************************************************)

\* time.time() when the client is constructed: not less than the delay, so
\* that the first wait_if_needed (last_request_time = 0.0) does not sleep
StartTime == Delay

\* time.sleep(t) returns after t or a little later
Oversleep == {0, 1}

\* how long wait_if_needed sleeps when called at time t
SleepMutNone(t, last) == 0

SleepFor(t, last) ==
    LET elapsed == t - last
    IN  IF elapsed < Delay THEN Delay - elapsed ELSE 0

\* wait_if_needed, called at the current time; over is the oversleep
WaitIfNeeded(over) ==
    LET slept == IF SleepFor(now, last_request_time) > 0
                 THEN SleepFor(now, last_request_time) + over ELSE 0
    IN  /\ now' = now + slept
        /\ last_request_time' = now + slept
        /\ wait_log' = [calls |-> IF wait_log.calls = 0 THEN 1 ELSE 2,
                        called_at |-> now, slept |-> slept, done_at |-> now + slept,
                        prev_done |-> last_request_time]
        /\ attempts_since_wait' = 0

\* a direct call of RateLimiter.wait_if_needed
RateLimiterWait ==
    /\ h_pc = "idle"
    /\ now < MaxClock
    /\ \E over \in Oversleep : WaitIfNeeded(over)
    /\ UNCHANGED <<html_cache, h_pc, h_call, attempts, retries, transients,
                   conn_failures, last_outcome, h_response, h_result, h_served>>
    /\ UNCHANGED notHttpVars

(***************************************************************************)
(* CachedHTTPClient.get / HTTPClient.get                                   *)
(***************************************************************************)
Absent == [absent |-> TRUE]
\* Optional[str]: no text
None == "None"
Keys == {"k1", "k2"}
Urls == {"u1"}
Bodies == {"", "A", "B"}

\* HTTPClient(max_retries=3)
MaxRetries == 3
\* Retry(status_forcelist=[429, 500, 502, 503, 504])
StatusForcelist == {429, 500, 502, 503, 504}
Statuses == {200, 404} \cup StatusForcelist

\* Python truth value of an Optional[str]
Truthy(x) == x # None /\ x # ""

\* _get_cache_path: the cache key when given, else a file name made from the URL
SafeName(url) == url \o ".html"
GetCachePath(url, cache_key) == IF cache_key # None THEN cache_key ELSE SafeName(url)
Paths == Keys \cup { SafeName(u) : u \in Urls }

\* _is_cache_valid
IsCacheValidMutLeq(cache_path) ==
    /\ html_cache[cache_path] # Absent
    /\ now - html_cache[cache_path].mtime <= CacheTtl

IsCacheValid(cache_path) ==
    /\ html_cache[cache_path] # Absent
    /\ now - html_cache[cache_path].mtime < CacheTtl

\* the except clauses of HTTPClient.get, in order, and the classes they catch
HandlersMutNoCatchAll == <<"Timeout", "ConnectionError", "HTTPError">>

Handlers == <<"Timeout", "ConnectionError", "HTTPError", "Exception">>

\* requests' exception classes: is exc an instance of class cls
IsInstance(exc, cls) ==
    \/ cls = "Exception"
    \/ exc = cls
    \/ exc = "ConnectTimeout" /\ cls \in {"Timeout", "ConnectionError"}

Caught(exc) == \E k \in 1..Len(Handlers) : IsInstance(exc, Handlers[k])

\* Retry.is_exhausted after one more increment: total - taken - 1 < 0
MayRetryMutOneMore(taken) == taken <= MaxRetries

MayRetry(taken) == taken < MaxRetries

CallArgs == [url : Urls, use_cache : BOOLEAN, cache_key : Keys \cup {None}]

ResetCall ==
    /\ attempts' = 0
    /\ retries' = 0
    /\ transients' = 0
    /\ conn_failures' = 0
    /\ last_outcome' = "none"

\* lines 287-293: the entry is valid and is returned
CachedGetHit ==
    /\ h_pc = "idle"
    /\ now < MaxClock
    /\ \E c \in CallArgs :
         /\ c.use_cache
         /\ IsCacheValid(GetCachePath(c.url, c.cache_key))
         /\ h_call' = c
         /\ h_result' = html_cache[GetCachePath(c.url, c.cache_key)].text
    /\ h_served' = "cache"
    /\ h_pc' = "returned"
    /\ h_response' = None
    /\ ResetCall
    /\ UNCHANGED <<now, last_request_time, wait_log, html_cache, attempts_since_wait>>
    /\ UNCHANGED notHttpVars

\* lines 287-296: no valid entry, or use_cache false: go on to super().get
CachedGetMiss ==
    /\ h_pc = "idle"
    /\ now < MaxClock
    /\ \E c \in CallArgs :
         /\ ~(c.use_cache /\ IsCacheValid(GetCachePath(c.url, c.cache_key)))
         /\ h_call' = c
    /\ h_pc' = "super_get"
    /\ h_served' = "none"
    /\ h_response' = None
    /\ h_result' = None
    /\ ResetCall
    /\ UNCHANGED <<now, last_request_time, wait_log, html_cache, attempts_since_wait>>
    /\ UNCHANGED notHttpVars

\* line 112
HttpGetWait ==
    /\ h_pc = "super_get"
    /\ \E over \in Oversleep : WaitIfNeeded(over)
    /\ h_pc' = "request"
    /\ UNCHANGED <<html_cache, h_call, attempts, retries, transients, conn_failures,
                   last_outcome, h_response, h_result, h_served>>
    /\ UNCHANGED notHttpVars

\* the try block has ended: with a response text, or with exception exc,
\* which the except clauses turn into None when one of them catches it
EndRequest(exc, text) ==
    IF exc = "none"
    THEN /\ h_response' = text
         /\ h_pc' = "fill"
    ELSE IF Caught(exc)
    THEN /\ h_response' = None
         /\ h_pc' = "fill"
    ELSE /\ h_response' = None
         /\ h_pc' = "raised"

\* lines 115-118: one network attempt of session.get; the mounted adapter
\* retries by itself on a status of the forcelist and on connection errors
AttemptStatus ==
    /\ h_pc = "request"
    /\ attempts' = attempts + 1
    /\ attempts_since_wait' = attempts_since_wait + 1
    /\ \E status \in Statuses, body \in Bodies :
         IF status \in StatusForcelist
         THEN /\ transients' = transients + 1
              /\ last_outcome' = "transient"
              /\ IF MayRetry(retries)
                 THEN /\ retries' = retries + 1
                      /\ UNCHANGED <<h_pc, h_response>>
                 ELSE /\ EndRequest("RetryError", None)
                      /\ UNCHANGED retries
         ELSE /\ UNCHANGED <<transients, retries>>
              /\ IF status = 200
                 THEN /\ last_outcome' = "ok"
                      /\ EndRequest("none", body)
                 ELSE /\ last_outcome' = "http_error"
                      /\ EndRequest("HTTPError", None)
    /\ UNCHANGED <<now, last_request_time, wait_log, html_cache, h_call, conn_failures,
                   h_result, h_served>>
    /\ UNCHANGED notHttpVars

AttemptConnectionError ==
    /\ h_pc = "request"
    /\ attempts' = attempts + 1
    /\ attempts_since_wait' = attempts_since_wait + 1
    /\ conn_failures' = conn_failures + 1
    /\ \E exc \in {"ConnectionError", "ConnectTimeout"} :
         /\ last_outcome' = exc
         /\ IF MayRetry(retries)
            THEN /\ retries' = retries + 1
                 /\ UNCHANGED <<h_pc, h_response>>
            ELSE /\ EndRequest(exc, None)
                 /\ UNCHANGED retries
    /\ UNCHANGED <<now, last_request_time, wait_log, html_cache, h_call, transients,
                   h_result, h_served>>
    /\ UNCHANGED notHttpVars

\* any other exception of the request (invalid URL, too many redirects,
\* undecodable content): not retried
AttemptUnexpected ==
    /\ h_pc = "request"
    /\ attempts' = attempts + 1
    /\ attempts_since_wait' = attempts_since_wait + 1
    /\ last_outcome' = "unexpected"
    /\ EndRequest("Other", None)
    /\ UNCHANGED <<now, last_request_time, wait_log, html_cache, h_call, retries,
                   transients, conn_failures, h_result, h_served>>
    /\ UNCHANGED notHttpVars

\* lines 298-304
WritesCacheMutAlways(response, use_cache) == Truthy(response)

WritesCache(response, use_cache) == Truthy(response) /\ use_cache

CachedGetFill ==
    /\ h_pc = "fill"
    /\ IF WritesCache(h_response, h_call.use_cache)
       THEN html_cache' = [html_cache EXCEPT ![GetCachePath(h_call.url, h_call.cache_key)] =
                              [text |-> h_response, mtime |-> now]]
       ELSE UNCHANGED html_cache
    /\ h_result' = h_response
    /\ h_served' = "network"
    /\ h_pc' = "returned"
    /\ UNCHANGED <<now, last_request_time, wait_log, h_call, attempts, retries, transients,
                   conn_failures, last_outcome, attempts_since_wait, h_response>>
    /\ UNCHANGED notHttpVars

\* the caller takes the result
HttpReturn ==
    /\ h_pc = "returned"
    /\ h_pc' = "idle"
    /\ UNCHANGED <<now, last_request_time, wait_log, html_cache, h_call, attempts, retries,
                   transients, conn_failures, last_outcome, attempts_since_wait,
                   h_response, h_result, h_served>>
    /\ UNCHANGED notHttpVars

\* time passes: between calls, during a request, during the adapter's backoff
Tick ==
    /\ now < MaxClock
    /\ now' = now + 1
    /\ UNCHANGED <<last_request_time, wait_log, html_cache, h_pc, h_call, attempts, retries,
                   transients, conn_failures, last_outcome, attempts_since_wait,
                   h_response, h_result, h_served>>
    /\ UNCHANGED notHttpVars

HttpInit ==
    /\ now = StartTime
    /\ last_request_time = 0
    /\ wait_log = [calls |-> 0, called_at |-> 0, slept |-> 0, done_at |-> 0, prev_done |-> 0]
    /\ html_cache = [p \in Paths |-> Absent]
    /\ h_pc = "idle"
    /\ h_call = [url |-> "u1", use_cache |-> TRUE, cache_key |-> None]
    /\ attempts = 0
    /\ retries = 0
    /\ transients = 0
    /\ conn_failures = 0
    /\ last_outcome = "none"
    /\ attempts_since_wait = 0
    /\ h_response = None
    /\ h_result = None
    /\ h_served = "none"

HttpNext ==
    \/ RateLimiterWait
    \/ CachedGetHit
    \/ CachedGetMiss
    \/ HttpGetWait
    \/ AttemptStatus
    \/ AttemptConnectionError
    \/ AttemptUnexpected
    \/ CachedGetFill
    \/ HttpReturn
    \/ Tick

(***************************************************************************)
(* DataromaScraper.scrape_all over CacheService.  One clock tick is        *)
(* TickHours hours here and passes between calls only: a crawl is short    *)
(* against it.  http_client.get is taken as a whole (SpecHttp has its      *)
(* steps): it gives the page or, while failures_left allows, None.         *)
(***************************************************************************)
\* a JSON file: missing, or holding a document
NoFile == [exists |-> FALSE]
File(data) == [exists |-> TRUE, data |-> data]
NoResult == [none |-> TRUE]
NoArgs == [managers |-> <<>>, holdings |-> <<>>, activities |-> <<>>]

\* ScraperProgress()
ZeroProgress == [managers_processed |-> 0, holdings_found |-> 0,
                 activities_found |-> 0, errors_encountered |-> 0]

\* is_cache_valid(max_age_hours=24)
MaxAgeHours == 24
\* _scrape_manager_activities(max_pages=20)
MaxPages == 20
\* "Save intermediate results every 10 managers"
CheckpointEvery == 10

\* the site: the roster lists managers 1..site_roster
SiteRoster(n) == [k \in 1..n |-> k]
\* the rows of a manager's holdings page, as parse_holdings_with_dates gives
\* them: one Holding per row with a symbol, a ticker listed in two rows twice
SiteHoldings(m) ==
    IF m % 7 = 0
    THEN <<[manager_id |-> m, symbol |-> "AAPL"], [manager_id |-> m, symbol |-> "AAPL"]>>
    ELSE IF m % 3 = 0 THEN <<>>
    ELSE IF m % 3 = 1 THEN <<[manager_id |-> m, symbol |-> "AAPL"]>>
    ELSE <<[manager_id |-> m, symbol |-> "AAPL"], [manager_id |-> m, symbol |-> "MSFT"]>>
\* the largest L= of the pagination links on a manager's first activity page
SitePages(m) == IF m % 4 = 1 THEN 3 ELSE 1
\* what parse_activities gives for page p of manager m
SiteActivities(m, p) == <<[manager_id |-> m, page |-> p]>>

Min(a, b) == IF a < b THEN a ELSE b

\* load_metadata and is_cache_valid(max_age_hours)
IsCacheValidForMutLeq(max_age_hours) ==
    /\ metadata_file # NoFile
    /\ (now - metadata_file.last_updated) * TickHours <= max_age_hours

IsCacheValidFor(max_age_hours) ==
    /\ metadata_file # NoFile
    /\ (now - metadata_file.last_updated) * TickHours < max_age_hours

\* is_cache_valid(), as line 69 calls it
IsStructCacheValid == IsCacheValidFor(MaxAgeHours)

\* Manager.to_dict / from_dict, Holding.to_dict / from_dict, Activity.to_dict /
\* from_dict, on the fields the records carry here
ManagerToDict(m) == [id |-> m]
ManagerFromDict(d) == d.id
HoldingToDictMutNoSymbol(h) == [symbol |-> "", manager_id |-> h.manager_id]
HoldingToDict(h) == [symbol |-> h.symbol, manager_id |-> h.manager_id]
HoldingFromDict(d) == [manager_id |-> d.manager_id, symbol |-> d.symbol]
ActivityToDict(a) == [manager_id |-> a.manager_id, page |-> a.page]
ActivityFromDict(d) == [manager_id |-> d.manager_id, page |-> d.page]

\* _load_json followed by "if data: ... return []"
LoadList(file) == IF file = NoFile THEN <<>> ELSE file.data

\* load_managers, load_holdings, load_activities
LoadManagers ==
    LET data == LoadList(managers_file)
    IN  [k \in 1..Len(data) |-> ManagerFromDict(data[k])]
LoadHoldings ==
    LET data == LoadList(holdings_file)
    IN  [k \in 1..Len(data) |-> HoldingFromDict(data[k])]
LoadActivities ==
    LET data == LoadList(activities_file)
    IN  [k \in 1..Len(data) |-> ActivityFromDict(data[k])]

\* the shards save_holdings / save_activities write: one per manager that has
\* records in the list, the other shard files stay as they are
Shards(old, records) ==
    [m \in DOMAIN old |->
        LET mine == SelectSeq(records, LAMBDA r : r.manager_id = m)
        IN  IF mine = <<>> THEN old[m] ELSE File(mine)]

\* what has happened to the scraper so far: scrape_all calls, failed fetches,
\* terminations, clock ticks
Events == calls + (MaxFailures - failures_left) + restarts + (now - StartTime)

\* a fetch through http_client.get: ok or not
FetchOutcomes == IF failures_left > 0 /\ Events < MaxEvents THEN {TRUE, FALSE} ELSE {TRUE}

Fetched(ok) ==
    /\ http_gets' = http_gets + 1
    /\ failed' = IF ok THEN failed ELSE failed + 1
    /\ failures_left' = IF ok THEN failures_left ELSE failures_left - 1

ClearLocals ==
    /\ managers' = <<>>
    /\ m_i' = 0
    /\ all_holdings' = <<>>
    /\ all_activities' = <<>>
    /\ act' = <<>>
    /\ page_ok' = <<>>
    /\ page_num' = 0
    /\ pages_to_fetch' = 0
    /\ save_args' = NoArgs
    /\ save_kind' = "none"

\* line 59: scrape_all is called
ScrapeAllCall ==
    /\ c_pc = "idle"
    /\ calls < MaxCalls /\ Events < MaxEvents
    /\ calls' = calls + 1
    /\ force_refresh' \in BOOLEAN
    /\ c_pc' = "cache_check"
    /\ result' = NoResult
    /\ http_gets' = 0
    /\ failed' = 0
    /\ UNCHANGED <<progress, managers, m_i, all_holdings, all_activities, act, page_ok,
                   page_num, pages_to_fetch, save_args, save_kind>>
    /\ UNCHANGED <<diskVars, envVars, notCrawlVars>>

\* lines 68-71: the cache check succeeds
ScrapeAllFromCacheMutRestamp ==
    /\ c_pc = "cache_check"
    /\ ~force_refresh /\ IsStructCacheValid
    /\ result' = [managers |-> LoadManagers,
                  holdings |-> LoadHoldings,
                  activities |-> LoadActivities,
                  progress |-> metadata_file.progress,
                  from_cache |-> TRUE]
    /\ c_pc' = "idle"
    /\ metadata_file' = [metadata_file EXCEPT !.last_updated = now]
    /\ UNCHANGED <<calls, force_refresh, progress, managers, m_i, all_holdings,
                   all_activities, act, page_ok, page_num, pages_to_fetch, save_args,
                   save_kind, http_gets, failed>>
    /\ UNCHANGED <<managers_file, holdings_file, activities_file, holdings_by_manager,
                   history_by_manager>>
    /\ UNCHANGED <<envVars, notCrawlVars>>

ScrapeAllFromCache ==
    /\ c_pc = "cache_check"
    /\ ~force_refresh /\ IsStructCacheValid
    /\ result' = [managers |-> LoadManagers,
                  holdings |-> LoadHoldings,
                  activities |-> LoadActivities,
                  progress |-> metadata_file.progress,
                  from_cache |-> TRUE]
    /\ c_pc' = "idle"
    /\ UNCHANGED <<calls, force_refresh, progress, managers, m_i, all_holdings,
                   all_activities, act, page_ok, page_num, pages_to_fetch, save_args,
                   save_kind, http_gets, failed>>
    /\ UNCHANGED <<diskVars, envVars, notCrawlVars>>

\* lines 68-81 and _scrape_managers: the full scrape starts
ScrapeAllRoster ==
    /\ c_pc = "cache_check"
    /\ force_refresh \/ ~IsStructCacheValid
    /\ force_refresh' = FALSE
    /\ \E ok \in FetchOutcomes :
         /\ Fetched(ok)
         /\ LET found == IF ok THEN SiteRoster(site_roster) ELSE <<>>
            IN  IF found = <<>>
                THEN \* lines 77-79 and _empty_result
                     /\ result' = [managers |-> <<>>, holdings |-> <<>>, activities |-> <<>>,
                                   progress |-> progress, from_cache |-> FALSE]
                     /\ c_pc' = "idle"
                     /\ UNCHANGED <<managers, m_i>>
                ELSE /\ managers' = found
                     /\ m_i' = 1
                     /\ c_pc' = "holdings"
                     /\ UNCHANGED result
    /\ UNCHANGED <<calls, progress, all_holdings, all_activities, act, page_ok, page_num,
                   pages_to_fetch, save_args, save_kind>>
    /\ UNCHANGED <<diskVars, site_roster, restarts, notCrawlVars>>

\* lines 89-90 and _scrape_manager_holdings
ScrapeHoldingsMutAbort ==
    /\ c_pc = "holdings"
    /\ \E ok \in FetchOutcomes :
         /\ Fetched(ok)
         /\ IF ok
            THEN /\ progress' = [progress EXCEPT
                                   !.holdings_found = @ + Len(SiteHoldings(managers[m_i]))]
                 /\ all_holdings' = all_holdings \o SiteHoldings(managers[m_i])
                 /\ c_pc' = "activities"
                 /\ UNCHANGED result
            ELSE /\ progress' = [progress EXCEPT !.errors_encountered = @ + 1]
                 /\ result' = [managers |-> <<>>, holdings |-> <<>>, activities |-> <<>>,
                               progress |-> progress', from_cache |-> FALSE]
                 /\ c_pc' = "idle"
                 /\ UNCHANGED all_holdings
    /\ UNCHANGED <<calls, force_refresh, managers, m_i, all_activities, act, page_ok,
                   page_num, pages_to_fetch, save_args, save_kind>>
    /\ UNCHANGED <<diskVars, site_roster, restarts, notCrawlVars>>

ScrapeHoldings ==
    /\ c_pc = "holdings"
    /\ \E ok \in FetchOutcomes :
         /\ Fetched(ok)
         /\ LET holdings == IF ok THEN SiteHoldings(managers[m_i]) ELSE <<>>
            IN  /\ progress' = IF ok
                               THEN [progress EXCEPT !.holdings_found = @ + Len(holdings)]
                               ELSE [progress EXCEPT !.errors_encountered = @ + 1]
                /\ all_holdings' = all_holdings \o holdings
    /\ c_pc' = "activities"
    /\ UNCHANGED <<calls, force_refresh, managers, m_i, all_activities, act, page_ok, page_num, pages_to_fetch,
                   save_args, save_kind, result>>
    /\ UNCHANGED <<diskVars, site_roster, restarts, notCrawlVars>>

\* lines 189-223: the first activity page
ScrapeActivitiesFirst ==
    /\ c_pc = "activities"
    /\ \E ok \in FetchOutcomes :
         /\ Fetched(ok)
         /\ IF ok
            THEN /\ act' = SiteActivities(managers[m_i], 1)
                 /\ page_ok' = <<TRUE>>
                 /\ pages_to_fetch' = Min(SitePages(managers[m_i]), MaxPages)
                 /\ c_pc' = "pages"
                 /\ UNCHANGED progress
            ELSE \* lines 196-199: return []
                 /\ act' = <<>>
                 /\ page_ok' = <<FALSE>>
                 /\ pages_to_fetch' = 0
                 /\ c_pc' = "processed"
                 /\ progress' = [progress EXCEPT !.errors_encountered = @ + 1]
    /\ page_num' = 2
    /\ UNCHANGED <<calls, force_refresh, managers, m_i, all_holdings, all_activities, save_args,
                   save_kind, result>>
    /\ UNCHANGED <<diskVars, site_roster, restarts, notCrawlVars>>

\* lines 226-237: one further page
ScrapeActivityPage ==
    /\ c_pc = "pages"
    /\ page_num <= pages_to_fetch
    /\ \E ok \in FetchOutcomes :
         /\ Fetched(ok)
         /\ act' = IF ok THEN act \o SiteActivities(managers[m_i], page_num) ELSE act
         /\ page_ok' = Append(page_ok, ok)
    /\ page_num' = page_num + 1
    /\ UNCHANGED <<calls, force_refresh, c_pc, progress, managers, m_i, all_holdings, all_activities,
                   pages_to_fetch, save_args, save_kind, result>>
    /\ UNCHANGED <<diskVars, site_roster, restarts, notCrawlVars>>

\* does the loop write a checkpoint now (line 109)
CheckpointDue(processed) == processed % CheckpointEvery = 0

\* the for loop of line 87 goes on after manager m_i: to the next manager, or
\* past the last one to the save of line 117
NextManager(holdings_so_far, activities_so_far) ==
    IF m_i < Len(managers)
    THEN /\ m_i' = m_i + 1
         /\ c_pc' = "holdings"
         /\ save_kind' = "none"
         /\ save_args' = NoArgs
    ELSE /\ save_args' = [managers |-> managers, holdings |-> holdings_so_far,
                          activities |-> activities_so_far]
         /\ save_kind' = "final"
         /\ c_pc' = "save_managers"
         /\ UNCHANGED m_i

\* lines 239-241 and 93-111: the pages are done, the manager is processed; a
\* checkpoint every 10
ManagerProcessed ==
    /\ c_pc \in {"pages", "processed"}
    /\ c_pc = "pages" => page_num > pages_to_fetch
    /\ all_activities' = all_activities \o act
    /\ progress' = [progress EXCEPT
                      !.activities_found = IF c_pc = "pages" THEN @ + Len(act) ELSE @,
                      !.managers_processed = @ + 1]
    /\ IF CheckpointDue(progress.managers_processed + 1)
       THEN /\ save_args' = [managers |-> SubSeq(managers, 1, m_i),
                             holdings |-> all_holdings,
                             activities |-> all_activities \o act]
            /\ save_kind' = "checkpoint"
            /\ c_pc' = "save_managers"
            /\ UNCHANGED m_i
       ELSE NextManager(all_holdings, all_activities \o act)
    /\ UNCHANGED <<calls, force_refresh, managers, all_holdings, act, page_ok, page_num, pages_to_fetch,
                   result, http_gets, failed>>
    /\ UNCHANGED <<diskVars, envVars, notCrawlVars>>

\* _save_all_to_cache, file by file
SaveManagers ==
    /\ c_pc = "save_managers"
    /\ managers_file' = File([k \in 1..Len(save_args.managers) |->
                                  ManagerToDict(save_args.managers[k])])
    /\ c_pc' = "save_holdings"
    /\ UNCHANGED <<calls, force_refresh, progress, managers, m_i, all_holdings, all_activities, act, page_ok,
                   page_num, pages_to_fetch, save_args, save_kind, result, http_gets, failed>>
    /\ UNCHANGED <<holdings_file, activities_file, metadata_file, holdings_by_manager,
                   history_by_manager>>
    /\ UNCHANGED <<envVars, notCrawlVars>>

SaveHoldings ==
    /\ c_pc = "save_holdings"
    /\ LET data == [k \in 1..Len(save_args.holdings) |-> HoldingToDict(save_args.holdings[k])]
       IN  /\ holdings_file' = File(data)
           /\ holdings_by_manager' = Shards(holdings_by_manager, data)
    /\ c_pc' = "save_activities"
    /\ UNCHANGED <<calls, force_refresh, progress, managers, m_i, all_holdings, all_activities, act, page_ok,
                   page_num, pages_to_fetch, save_args, save_kind, result, http_gets, failed>>
    /\ UNCHANGED <<managers_file, activities_file, metadata_file, history_by_manager>>
    /\ UNCHANGED <<envVars, notCrawlVars>>

SaveActivities ==
    /\ c_pc = "save_activities"
    /\ LET data == [k \in 1..Len(save_args.activities) |->
                       ActivityToDict(save_args.activities[k])]
       IN  /\ activities_file' = File(data)
           /\ history_by_manager' = Shards(history_by_manager, data)
    /\ c_pc' = "save_metadata"
    /\ UNCHANGED <<calls, force_refresh, progress, managers, m_i, all_holdings, all_activities, act, page_ok,
                   page_num, pages_to_fetch, save_args, save_kind, result, http_gets, failed>>
    /\ UNCHANGED <<managers_file, holdings_file, metadata_file, holdings_by_manager>>
    /\ UNCHANGED <<envVars, notCrawlVars>>

\* lines 261-272 and save_metadata; of_roster is not in the file: it records
\* the roster length of the crawl that wrote the metadata
SaveMetadata ==
    /\ c_pc = "save_metadata"
    /\ metadata_file' =
         [num_managers |-> Len(save_args.managers),
          num_holdings |-> Len(save_args.holdings),
          num_activities |-> Len(save_args.activities),
          unique_stocks |-> Cardinality({ save_args.holdings[k].symbol :
                                            k \in 1..Len(save_args.holdings) }),
          progress |-> progress,
          last_updated |-> now,
          of_roster |-> Len(managers)]
    /\ IF save_kind = "checkpoint"
       THEN NextManager(all_holdings, all_activities)
       ELSE /\ c_pc' = "return"
            /\ UNCHANGED <<m_i, save_args, save_kind>>
    /\ UNCHANGED <<calls, force_refresh, progress, managers, all_holdings, all_activities, act, page_ok,
                   page_num, pages_to_fetch, result, http_gets, failed>>
    /\ UNCHANGED <<managers_file, holdings_file, activities_file, holdings_by_manager,
                   history_by_manager>>
    /\ UNCHANGED <<envVars, notCrawlVars>>

\* lines 128-133
ScrapeAllReturn ==
    /\ c_pc = "return"
    /\ result' = [managers |-> managers, holdings |-> all_holdings,
                  activities |-> all_activities, progress |-> progress,
                  from_cache |-> FALSE]
    /\ c_pc' = "idle"
    /\ ClearLocals
    /\ UNCHANGED <<calls, force_refresh, progress, http_gets, failed>>
    /\ UNCHANGED <<diskVars, envVars, notCrawlVars>>

\* the process is terminated, at any point, and started again: a new
\* DataromaScraper over the files the old one left
Restart ==
    /\ restarts < MaxRestarts /\ Events < MaxEvents
    /\ restarts' = restarts + 1
    /\ c_pc' = "idle"
    /\ progress' = ZeroProgress
    /\ result' = NoResult
    /\ http_gets' = 0
    /\ failed' = 0
    /\ force_refresh' = FALSE
    /\ ClearLocals
    /\ UNCHANGED <<calls, diskVars, site_roster, failures_left, notCrawlVars>>

\* time passes between calls
CrawlTick ==
    /\ c_pc = "idle"
    /\ now < StartTime + MaxCrawlTicks /\ Events < MaxEvents
    /\ now' = now + 1
    /\ UNCHANGED <<httpButNow, crawlVars>>
    /\ UNCHANGED <<parseVars, cellsVars, rosterVars, holdVars, numVars>>

\* main with --skip-enrichment, lines 326-331: a new DataromaScraper, no
\* cache check
MainSkipEnrichment ==
    /\ c_pc = "idle"
    /\ calls < MaxCalls /\ Events < MaxEvents
    /\ calls' = calls + 1
    /\ progress' = ZeroProgress
    /\ c_pc' = "main_roster"
    /\ result' = NoResult
    /\ http_gets' = 0
    /\ failed' = 0
    /\ UNCHANGED <<force_refresh, managers, m_i, all_holdings, all_activities, act, page_ok,
                   page_num, pages_to_fetch, save_args, save_kind>>
    /\ UNCHANGED <<diskVars, envVars, notCrawlVars>>

\* lines 329-333 and _scrape_managers: with no manager the loop is passed
\* over and line 358 saves the empty lists
MainRoster ==
    /\ c_pc = "main_roster"
    /\ \E ok \in FetchOutcomes :
         /\ Fetched(ok)
         /\ LET found == IF ok THEN SiteRoster(site_roster) ELSE <<>>
            IN  /\ managers' = found
                /\ IF found = <<>>
                   THEN /\ m_i' = 0
                        /\ save_args' = [managers |-> <<>>, holdings |-> all_holdings,
                                         activities |-> all_activities]
                        /\ save_kind' = "final"
                        /\ c_pc' = "save_managers"
                   ELSE /\ m_i' = 1
                        /\ c_pc' = "holdings"
                        /\ UNCHANGED <<save_args, save_kind>>
    /\ UNCHANGED <<calls, force_refresh, progress, all_holdings, all_activities, act, page_ok,
                   page_num, pages_to_fetch, result>>
    /\ UNCHANGED <<diskVars, site_roster, restarts, notCrawlVars>>

\* lines 360-363 and __exit__: the counts are printed and the scraper closed
MainReturn ==
    /\ c_pc = "return"
    /\ c_pc' = "idle"
    /\ ClearLocals
    /\ UNCHANGED <<calls, force_refresh, progress, result, http_gets, failed>>
    /\ UNCHANGED <<diskVars, envVars, notCrawlVars>>

ManagerIds == 1..MaxManagers

\* the rosters tried: none, one manager, half a checkpoint interval, exactly
\* one interval, and the longest
RosterSizes == {0, 1, CheckpointEvery \div 2, CheckpointEvery, MaxManagers}

CrawlInit ==
    /\ site_roster \in RosterSizes
    /\ failures_left = MaxFailures
    /\ restarts = 0
    /\ calls = 0
    /\ force_refresh = FALSE
    /\ c_pc = "idle"
    /\ progress = ZeroProgress
    /\ managers = <<>>
    /\ m_i = 0
    /\ all_holdings = <<>>
    /\ all_activities = <<>>
    /\ act = <<>>
    /\ page_ok = <<>>
    /\ page_num = 0
    /\ pages_to_fetch = 0
    /\ save_args = NoArgs
    /\ save_kind = "none"
    /\ result = NoResult
    /\ http_gets = 0
    /\ failed = 0
    /\ managers_file = NoFile
    /\ holdings_file = NoFile
    /\ activities_file = NoFile
    /\ metadata_file = NoFile
    /\ holdings_by_manager = [m \in ManagerIds |-> NoFile]
    /\ history_by_manager = [m \in ManagerIds |-> NoFile]

CrawlNext ==
    \/ ScrapeAllCall
    \/ ScrapeAllFromCache
    \/ ScrapeAllRoster
    \/ ScrapeHoldings
    \/ ScrapeActivitiesFirst
    \/ ScrapeActivityPage
    \/ ManagerProcessed
    \/ SaveManagers
    \/ SaveHoldings
    \/ SaveActivities
    \/ SaveMetadata
    \/ ScrapeAllReturn
    \/ Restart
    \/ CrawlTick

\* the pages: up to MaxLen children, at most MaxOther of them not a <td>
Pages ==
    { [grid |-> TRUE, tbody |-> TRUE,
       elements |-> [k \in 1..n |-> IF k \in DOMAIN f THEN f[k] ELSE Td]] :
         n \in 0..MaxLen,
         f \in UNION { [P -> NonCell] :
                        P \in { Q \in SUBSET (1..MaxLen) : Cardinality(Q) <= MaxOther } } }
    \cup { [grid |-> g, tbody |-> FALSE, elements |-> <<>>] : g \in BOOLEAN }

ParseInit ==
    /\ HttpInit
    /\ CellsIdle
    /\ CrawlInit
    /\ NumIdle
    /\ HoldingsIdle
    /\ RosterIdle
    /\ site_roster = 0
    /\ html \in Pages
    /\ p_pc = "start"
    /\ i = 1
    /\ current_quarter = ""
    /\ current_year = ""
    /\ activities = <<>>
    /\ parse_result = <<>>

ParseNext ==
    \/ ParseNoTable
    \/ ParseBegin
    \/ ParseSkipNonTag
    \/ ParseHeader
    \/ ParseCells
    \/ ParseOther
    \/ ParseReturn

SpecParse == ParseInit /\ [][ParseNext]_vars

HttpOnlyInit ==
    /\ HttpInit
    /\ CellsIdle
    /\ CrawlInit
    /\ NumIdle
    /\ HoldingsIdle
    /\ RosterIdle
    /\ site_roster = 0
    /\ html = [grid |-> FALSE, tbody |-> FALSE, elements |-> <<>>]
    /\ p_pc = "start"
    /\ i = 1
    /\ current_quarter = ""
    /\ current_year = ""
    /\ activities = <<>>
    /\ parse_result = <<>>

SpecHttp == HttpOnlyInit /\ [][HttpNext]_vars

CrawlOnlyInit ==
    /\ HttpInit
    /\ CellsIdle
    /\ CrawlInit
    /\ NumIdle
    /\ HoldingsIdle
    /\ RosterIdle
    /\ html = [grid |-> FALSE, tbody |-> FALSE, elements |-> <<>>]
    /\ p_pc = "start"
    /\ i = 1
    /\ current_quarter = ""
    /\ current_year = ""
    /\ activities = <<>>
    /\ parse_result = <<>>

SpecCrawl == CrawlOnlyInit /\ [][CrawlNext]_vars

\* main with --skip-enrichment, run after run over the same cache directory
MainNext ==
    \/ MainSkipEnrichment
    \/ MainRoster
    \/ ScrapeHoldings
    \/ ScrapeActivitiesFirst
    \/ ScrapeActivityPage
    \/ ManagerProcessed
    \/ SaveManagers
    \/ SaveHoldings
    \/ SaveActivities
    \/ SaveMetadata
    \/ MainReturn

SpecMain == CrawlOnlyInit /\ [][MainNext]_vars

CellsInit ==
    /\ HttpInit
    /\ CrawlInit
    /\ NumIdle
    /\ HoldingsIdle
    /\ RosterIdle
    /\ site_roster = 0
    /\ html = [grid |-> FALSE, tbody |-> FALSE, elements |-> <<>>]
    /\ p_pc = "start"
    /\ i = 1
    /\ current_quarter = ""
    /\ current_year = ""
    /\ activities = <<>>
    /\ parse_result = <<>>
    /\ cells_in \in CellInputs
    /\ ac_pc = "start"
    /\ action = <<>>
    /\ action_type = ""
    /\ cell_activity = NoActivity

SpecCells == CellsInit /\ [][CellsNext]_vars

RosterInit ==
    /\ HttpInit
    /\ CellsIdle
    /\ CrawlInit
    /\ NumIdle
    /\ HoldingsIdle
    /\ site_roster = 0
    /\ html = [grid |-> FALSE, tbody |-> FALSE, elements |-> <<>>]
    /\ p_pc = "start"
    /\ i = 1
    /\ current_quarter = ""
    /\ current_year = ""
    /\ activities = <<>>
    /\ parse_result = <<>>
    /\ links \in RosterPages
    /\ l_pc = "start"
    /\ l_i = 1
    /\ seen_ids = {}
    /\ roster_managers = <<>>

SpecRoster == RosterInit /\ [][RosterNext]_vars

HoldingsInit ==
    /\ HttpInit
    /\ CellsIdle
    /\ CrawlInit
    /\ NumIdle
    /\ RosterIdle
    /\ site_roster = 0
    /\ html = [grid |-> FALSE, tbody |-> FALSE, elements |-> <<>>]
    /\ p_pc = "start"
    /\ i = 1
    /\ current_quarter = ""
    /\ current_year = ""
    /\ activities = <<>>
    /\ parse_result = <<>>
    /\ hd_page \in HoldingsPages
    /\ wall \in WallStart
    /\ hd_pc = "start"
    /\ hd_i = 1
    /\ hd_date = ""
    /\ hd_quarter = ""
    /\ hd_holdings = <<>>
    /\ hd_log = <<>>
    /\ hd_returned = <<>>

SpecHoldings == HoldingsInit /\ [][HoldingsNext]_vars

NumInit ==
    /\ HttpInit
    /\ CellsIdle
    /\ CrawlInit
    /\ RosterIdle
    /\ HoldingsIdle
    /\ site_roster = 0
    /\ html = [grid |-> FALSE, tbody |-> FALSE, elements |-> <<>>]
    /\ p_pc = "start"
    /\ i = 1
    /\ current_quarter = ""
    /\ current_year = ""
    /\ activities = <<>>
    /\ parse_result = <<>>
    /\ num_text \in NumTexts
    /\ n_pc = "start"
    /\ num_out = NoOutcomes

SpecNum == NumInit /\ [][NumNext]_vars

(***************************************************************************)
(* Properties of parse_activities                                          *)
(***************************************************************************)
\* the labels "Q# YYYY" a header can give
HeaderLabels == { q \o " " \o y : q \in Quarters, y \in Years }

\* positions of the bare <td> elements, in document order
TdPositions ==
    SelectSeq([k \in 1..Len(html.elements) |-> k],
              LAMBDA k : html.elements[k].name = "td")

\* the list starts with a recognisable quarter header and has no other header
HeaderFirst ==
    /\ Len(html.elements) >= 1
    /\ html.elements[1].class = "q_chg"
    /\ QuarterMatch(html.elements[1].text) # <<>>
    /\ \A k \in 2..Len(html.elements) : html.elements[k].class # "q_chg"

\* C1: every Activity returned by parse_activities carries a quarter label
\* "Q# YYYY" taken from a header; a group of five cells completed before any
\* header has been seen gives no Activity.
C1_EveryActivityHasQuarterLabel ==
    p_pc = "done" =>
        \A k \in 1..Len(parse_result) : parse_result[k].date \in HeaderLabels

\* C2: a header for quarter Q and year Y followed by N complete groups of five
\* cells, with no other header, gives exactly N Activities, in document
\* order, the k-th decoded from the k-th group of five cells, each labelled "Q Y".
C2_QuarterCarriedForward ==
    (p_pc = "done" /\ HeaderFirst) =>
        LET m == QuarterMatch(html.elements[1].text)
            tds == TdPositions
        IN  parse_result =
              [g \in 1..(Len(tds) \div 5) |->
                 [date |-> m[1] \o " " \o m[2],
                  cells |-> SubSeq(tds, 5 * g - 4, 5 * g),
                  manager_id |-> ManagerId]]

\* two groups after one header, both labelled by it
C2_Witness ==
    /\ p_pc = "done"
    /\ HeaderFirst
    /\ Len(parse_result) = 2
    /\ parse_result[2].date = "Q2 2019"

(***************************************************************************)
(* Properties of the HTTP client                                           *)
(***************************************************************************)
CallPath(c) == GetCachePath(c.url, c.cache_key)

\* C5: every network attempt, the adapter's automatic retries included, is
\* preceded by its own wait_if_needed: never two attempts after one wait.
C5_EveryAttemptAfterWait == attempts_since_wait <= 1

\* C6: one get makes at most max_retries + 1 attempts; k <= max_retries
\* answers of the forcelist and then 200 give the body after exactly k retries;
\* answers of the forcelist only give a failure after max_retries retries; a
\* status such as 404 gives a failure at once, after one attempt when it is
\* the first answer.
C6_BoundedRetry ==
    /\ attempts <= MaxRetries + 1
    /\ retries <= MaxRetries
    /\ h_pc = "fill" =>
         /\ (last_outcome = "ok" /\ conn_failures = 0) =>
               /\ h_response \in Bodies
               /\ retries = transients
               /\ attempts = transients + 1
         /\ last_outcome = "transient" =>
               /\ h_response = None
               /\ retries = MaxRetries
               /\ attempts = MaxRetries + 1
         /\ last_outcome = "http_error" =>
               /\ h_response = None
               /\ attempts = retries + 1
               /\ (transients = 0 /\ conn_failures = 0) => attempts = 1

\* 503 three times, then 200: the body, after three retries
C6_Witness ==
    /\ h_pc = "fill"
    /\ last_outcome = "ok"
    /\ transients = 3
    /\ conn_failures = 0
    /\ retries = 3
    /\ h_response = "A"

\* C7: get never lets an exception of the request reach its caller: every
\* failure comes back as None, and a text comes back only from a successful
\* attempt or from the cache.
C7_GetNeverRaises ==
    /\ h_pc # "raised"
    /\ (h_pc = "fill" /\ last_outcome # "ok") => h_response = None
    /\ (h_pc = "returned" /\ h_served = "network" /\ last_outcome # "ok") => h_result = None
    /\ (h_pc = "returned" /\ h_result # None) => (h_served = "cache" \/ last_outcome = "ok")

\* retries exhausted on a status of the forcelist: None, no exception
C7_Witness ==
    /\ h_pc = "returned"
    /\ h_served = "network"
    /\ last_outcome = "transient"
    /\ attempts = MaxRetries + 1
    /\ h_result = None

\* C8: two consecutive wait_if_needed calls complete at least delay apart; a
\* call made when delay has already passed does not sleep; the call leaves
\* last_request_time at its completion time.
C8_RateLimiterSpacing ==
    wait_log.calls >= 1 =>
        /\ last_request_time = wait_log.done_at
        /\ wait_log.calls = 2 => wait_log.done_at - wait_log.prev_done >= Delay
        /\ wait_log.called_at - wait_log.prev_done >= Delay => wait_log.slept = 0
        /\ wait_log.done_at = wait_log.called_at + wait_log.slept

\* a second call right after the first one: it slept the whole delay
C8_Witness ==
    /\ wait_log.calls = 2
    /\ wait_log.called_at = wait_log.prev_done
    /\ wait_log.slept = Delay
    /\ wait_log.done_at - wait_log.prev_done = Delay

\* C9: a get with use_cache true and an entry at cache_key younger than the
\* TTL returns that entry's text with no network attempt and no rate-limiter
\* wait; any other get goes to the network and returns what the network gave.
C9_CacheHit ==
    [][ /\ (h_pc = "idle" /\ h_pc' # "idle") =>
              LET path == CallPath(h_call')
                  hit == /\ h_call'.use_cache
                         /\ html_cache[path] # Absent
                         /\ now - html_cache[path].mtime < CacheTtl
              IN  IF hit
                  THEN /\ h_pc' = "returned"
                       /\ h_served' = "cache"
                       /\ h_result' = html_cache[path].text
                       /\ attempts' = 0
                       /\ UNCHANGED <<now, last_request_time, wait_log, html_cache>>
                  ELSE /\ h_pc' = "super_get"
                       /\ h_served' = "none"
        /\ (h_pc # "returned" /\ h_pc' = "returned" /\ h_served' = "network") =>
              /\ attempts >= 1
              /\ h_result' = h_response
              /\ last_outcome # "ok" => h_result' = None
      ]_vars

\* an entry one tick short of the TTL is served
C9_Witness ==
    /\ h_pc = "returned"
    /\ h_served = "cache"
    /\ h_call.use_cache
    /\ attempts = 0
    /\ h_result = "A"
    /\ now - html_cache[CallPath(h_call)].mtime = CacheTtl - 1

\* C10 as stated: whenever get does not serve a cached entry and the fetch
\* succeeds, the body is in the entry at cache_key when get returns.
C10_FetchedBodyAlwaysCached ==
    (h_pc = "returned" /\ h_served = "network" /\ last_outcome = "ok") =>
        /\ html_cache[CallPath(h_call)] # Absent
        /\ html_cache[CallPath(h_call)].text = h_result

\* C10, amended: a get with use_cache true that does not serve a cached entry
\* and fetches a non-empty body writes it to the entry at cache_key, stamped
\* with the current time, before returning it, and a get with use_cache true
\* for the same key at that same time returns it from the cache; a get with
\* use_cache false, an empty body or a failed fetch leaves every entry as it was.
C10_CacheFill ==
    [][ /\ (h_pc = "fill" /\ h_pc' = "returned") =>
              IF h_call.use_cache /\ last_outcome = "ok" /\ h_response # ""
              THEN /\ html_cache' = [html_cache EXCEPT ![CallPath(h_call)] =
                                        [text |-> h_response, mtime |-> now]]
                   /\ h_result' = h_response
              ELSE html_cache' = html_cache
        /\ (h_pc = "idle" /\ h_pc' # "idle" /\ h_call'.use_cache
              /\ html_cache[CallPath(h_call')] # Absent
              /\ html_cache[CallPath(h_call')].mtime = now) =>
              /\ h_served' = "cache"
              /\ h_result' = html_cache[CallPath(h_call')].text
              /\ attempts' = 0
      ]_vars

\* a stale entry "A" replaced by the fetched "B"
C10_Witness ==
    /\ h_pc = "returned"
    /\ h_served = "network"
    /\ h_call.use_cache
    /\ h_result = "B"
    /\ html_cache[CallPath(h_call)] = [text |-> "B", mtime |-> now]

(***************************************************************************)
(* Properties of the crawl                                                 *)
(***************************************************************************)
\* C3: after a crawl was terminated between a checkpoint and Finalize, a
\* scrape_all without force_refresh does not return from the cache check:
\* what scrape_all returns from the structured cache is never a checkpoint
\* that holds fewer managers than the roster of the crawl that wrote it.
C3_RestartNeverReturnsCheckpoint ==
    ~ /\ result # NoResult
      /\ result.from_cache
      /\ restarts > 0
      /\ metadata_file.num_managers < metadata_file.of_roster

\* C4: a checkpoint is written exactly after the 10th, 20th, ... manager of
\* the crawl in progress, and it holds the first k roster managers
\* (k managers processed so far in this crawl) with everything accumulated.
C4_CheckpointCadence ==
    /\ (c_pc = "save_managers" /\ save_kind = "checkpoint") =>
          /\ m_i % CheckpointEvery = 0
          /\ save_args = [managers |-> SubSeq(managers, 1, m_i),
                          holdings |-> all_holdings,
                          activities |-> all_activities]
    /\ (c_pc = "holdings" /\ m_i > 1 /\ (m_i - 1) % CheckpointEvery = 0) =>
          /\ LoadManagers = SubSeq(managers, 1, m_i - 1)
          /\ LoadHoldings = all_holdings
          /\ LoadActivities = all_activities
          /\ metadata_file # NoFile
          /\ metadata_file.num_managers = m_i - 1

\* C11: scrape_all called with force_refresh false while the metadata is
\* younger than the max age returns the managers, holdings and activities as
\* loaded from the structured cache, with no HTTP request, no HTML-cache
\* access and no write to the structured cache; with force_refresh true, or
\* the metadata missing or too old, it goes on to fetch the roster.
C11_CacheCheckShortCircuit ==
    [][ c_pc = "cache_check" /\ c_pc' # "cache_check" /\ restarts' = restarts =>
          LET young == /\ metadata_file # NoFile
                       /\ now * TickHours < metadata_file.last_updated * TickHours + MaxAgeHours
          IN  IF ~force_refresh /\ young
              THEN /\ c_pc' = "idle"
                   /\ result' # NoResult
                   /\ result'.managers = LoadManagers
                   /\ result'.holdings = LoadHoldings
                   /\ result'.activities = LoadActivities
                   /\ http_gets' = 0
                   /\ UNCHANGED <<diskVars, html_cache, progress>>
              ELSE /\ http_gets' = 1
                   /\ result' # NoResult => ~result'.from_cache
      ]_vars

\* a second call, one tick after a full crawl of five managers, answered from
\* the structured cache
C11_Witness ==
    /\ c_pc = "idle"
    /\ calls = 2
    /\ restarts = 0
    /\ result # NoResult
    /\ result.from_cache
    /\ Len(result.managers) = 5
    /\ http_gets = 0
    /\ now = metadata_file.last_updated + 1

\* C12: when the roster fetch fails or the roster is empty, scrape_all returns
\* empty managers, holdings and activities, has made no fetch but the roster
\* fetch, and every progress counter is at zero.
C12_EmptyRosterAborts ==
    (c_pc = "idle" /\ result # NoResult /\ ~result.from_cache /\ result.managers = <<>>) =>
        /\ result.holdings = <<>>
        /\ result.activities = <<>>
        /\ http_gets = 1
        /\ result.progress = ZeroProgress
        /\ progress = ZeroProgress

\* managers of the roster processed so far by the crawl in progress
Completed ==
    IF c_pc \in {"holdings", "activities", "pages", "processed"} THEN m_i - 1
    ELSE IF c_pc \in {"save_managers", "save_holdings", "save_activities",
                      "save_metadata", "return"} THEN m_i
    ELSE 0

\* a step of the crawl in progress
CrawlStep ==
    \/ ScrapeHoldings
    \/ ScrapeActivitiesFirst
    \/ ScrapeActivityPage
    \/ ManagerProcessed
    \/ SaveManagers
    \/ SaveHoldings
    \/ SaveActivities
    \/ SaveMetadata
    \/ ScrapeAllReturn

\* the crawl goes through the roster in order, one manager after the other,
\* counting each once, whatever fails; it is never stuck, ends only by the
\* return of line 128, after the save of line 117, with the whole roster
VisitsEveryManager ==
    /\ (c_pc \notin {"idle", "cache_check"}) =>
          /\ ENABLED CrawlStep
          /\ managers = SiteRoster(site_roster)
          /\ m_i \in 1..Len(managers)
          /\ c_pc = "return" => (m_i = Len(managers) /\ save_kind = "final")
    /\ (c_pc \notin {"idle", "cache_check"} /\ restarts' = restarts) =>
          IF c_pc' = "idle"
          THEN /\ c_pc = "return"
               /\ result' # NoResult
               /\ result'.managers = managers
          ELSE /\ managers' = managers
               /\ Completed' - Completed \in {0, 1}
               /\ progress'.managers_processed - progress.managers_processed
                     = Completed' - Completed

\* the holdings a manager contributes: none when the fetch failed
HoldingsContributed ==
    (c_pc = "holdings" /\ restarts' = restarts) =>
        all_holdings' = all_holdings \o (IF failed' = failed THEN SiteHoldings(managers[m_i])
                                                               ELSE <<>>)

\* C13 as stated: whatever fetch fails, every roster manager is visited in
\* roster order and counted once, the crawl reaches the final save and
\* returns, and a manager with a failed holdings fetch contributes no
\* holdings, a manager with a failed activity page no activities.
C13_FailedKindContributesNothing ==
    [][ /\ VisitsEveryManager
        /\ HoldingsContributed
        /\ (c_pc \in {"pages", "processed"} /\ Completed' = Completed + 1) =>
              IF \E p \in 1..Len(page_ok) : ~page_ok[p]
              THEN all_activities' = all_activities
              ELSE all_activities' = all_activities \o act
      ]_vars

\* C13, amended: whatever fetch fails, every roster manager is visited in
\* roster order and counted once, the crawl reaches the final save and
\* returns; a failed holdings fetch contributes no holdings and a failed
\* first activity page no activities for that manager; a failed later page
\* contributes nothing of that page, and the pages before it are kept.
C13_ManagerFailuresNeverAbort ==
    [][ /\ VisitsEveryManager
        /\ HoldingsContributed
        /\ (c_pc \in {"pages", "processed"} /\ Completed' = Completed + 1) =>
              /\ all_activities' = all_activities \o act
              /\ ~page_ok[1] => act = <<>>
              /\ \A k \in 1..Len(act) :
                    /\ act[k].manager_id = managers[m_i]
                    /\ page_ok[act[k].page]
              /\ \A p \in 1..Len(page_ok) :
                    (\A q \in 1..p : page_ok[q]) =>
                        SubSeq(act, p, p) = SiteActivities(managers[m_i], p)
      ]_vars

\* a crawl of five managers returned although the holdings fetch of the
\* second manager failed: all five counted, that manager's two holdings missing
C13_Witness ==
    /\ c_pc = "idle"
    /\ result # NoResult
    /\ ~result.from_cache
    /\ calls = 1
    /\ failed = 1
    /\ result.managers = SiteRoster(5)
    /\ result.progress.managers_processed = 5
    /\ result.progress.errors_encountered = 1
    /\ Len(result.holdings) = 4
    /\ \A k \in 1..4 : result.holdings[k].manager_id # 2

\* C14: once the fetch of an activity page p of a manager has failed, no page
\* after p is fetched for that manager, and the activities collected for the
\* manager are those of pages 1..p-1.
C14_PaginationStopsAtFirstFailure ==
    c_pc \in {"pages", "processed"} =>
        \A p \in 1..Len(page_ok) :
            ~page_ok[p] =>
                /\ Len(page_ok) = p
                /\ Len(act) = p - 1
                /\ \A q \in 1..(p - 1) : SubSeq(act, q, q) = SiteActivities(managers[m_i], q)

\* C15: when a crawl ends, errors_encountered is the number of fetches that
\* failed during it: the roster page, the holdings pages, the first and the
\* later activity pages all count.  Taken on the first scrape_all of a
\* scraper, whose counters start at zero.
C15_ErrorsCountEveryFailure ==
    (c_pc = "idle" /\ result # NoResult /\ ~result.from_cache /\ calls = 1 /\ restarts = 0) =>
        result.progress.errors_encountered = failed

\* C16: a full crawl starts with every ScraperProgress counter at zero, also
\* the second scrape_all(force_refresh=True) on the same object; when it
\* ends, managers_processed is the roster length and holdings_found and
\* activities_found are the sizes of the result's lists.
C16_ProgressResetPerCrawl ==
    /\ (c_pc = "holdings" /\ m_i = 1) => progress = ZeroProgress
    /\ (c_pc = "idle" /\ result # NoResult /\ ~result.from_cache /\ result.managers # <<>>) =>
          /\ result.progress.managers_processed = Len(result.managers)
          /\ result.progress.holdings_found = Len(result.holdings)
          /\ result.progress.activities_found = Len(result.activities)

\* C17: when scrape_all returns from a full crawl with a non-empty roster,
\* load_managers, load_holdings and load_activities give the managers,
\* holdings and activities of the returned result, in the same order, and the
\* metadata holds their counts and the number of distinct tickers among the
\* holdings.
C17_FinalizePersistsResult ==
    (c_pc = "idle" /\ result # NoResult /\ ~result.from_cache /\ result.managers # <<>>) =>
        /\ LoadManagers = result.managers
        /\ LoadHoldings = result.holdings
        /\ LoadActivities = result.activities
        /\ metadata_file # NoFile
        /\ metadata_file.num_managers = Len(result.managers)
        /\ metadata_file.num_holdings = Len(result.holdings)
        /\ metadata_file.num_activities = Len(result.activities)
        /\ metadata_file.unique_stocks =
              Cardinality({ result.holdings[k].symbol : k \in 1..Len(result.holdings) })

\* a crawl of ten managers, with its checkpoint on the way, has returned:
\* thirteen holdings of two tickers
C17_Witness ==
    /\ c_pc = "idle"
    /\ result # NoResult
    /\ ~result.from_cache
    /\ Len(result.managers) = CheckpointEvery
    /\ failed = 0
    /\ LoadHoldings = result.holdings
    /\ metadata_file.num_holdings > 2
    /\ metadata_file.unique_stocks = 2

\* the max ages is_cache_valid is asked about: one tick, the default, three ticks
MaxAges == {TickHours, MaxAgeHours, 3 * TickHours}

\* C18: save_metadata at time t stamps the metadata with t, every later
\* save_metadata moves the stamp to the time of that write; is_cache_valid(max_age)
\* is true at every clock value before t + max_age and false from t + max_age
\* on, and false while no metadata has been written.
C18_StructuredCacheValidity ==
    [][ /\ metadata_file' # metadata_file =>
              (metadata_file' # NoFile /\ metadata_file'.last_updated = now')
        /\ \A max_age \in MaxAges :
              /\ metadata_file = NoFile => ~IsCacheValidFor(max_age)
              /\ metadata_file # NoFile =>
                    (IsCacheValidFor(max_age)
                       <=> now * TickHours < metadata_file.last_updated * TickHours + max_age)
        /\ (c_pc = "cache_check" /\ ~force_refresh /\ restarts' = restarts) =>
              (result' # NoResult /\ result'.from_cache)
                 = (metadata_file # NoFile
                      /\ now * TickHours < metadata_file.last_updated * TickHours + MaxAgeHours)
      ]_vars

\* two ticks after the metadata was written a scrape_all without
\* force_refresh is at its cache check: too old for the default max age,
\* young enough for three ticks
C18_Witness ==
    /\ c_pc = "cache_check"
    /\ ~force_refresh
    /\ metadata_file # NoFile
    /\ now = metadata_file.last_updated + 2
    /\ ~IsStructCacheValid
    /\ IsCacheValidFor(3 * TickHours)

(***************************************************************************)
(* Properties of _parse_activity_cells                                     *)
(***************************************************************************)
\* C19: the action type the record parser derives is that of the ordered
\* classifier: "sold all", "sold out" or "exit" in the lower-cased text give
\* Sell; else "new" or "buy" give Buy; else "add" or a leading "+" give Add;
\* else "reduce" or a leading "-" give Reduce; otherwise Hold.
C19_ActionTypeIsOrderedClassifier ==
    ac_pc \in {"typed", "done"} /\ cells_in.n >= 5 =>
        LET text == LowerText(action)
            classified ==
                IF In(<<"sold", "all">>, text) \/ In(<<"sold", "out">>, text)
                     \/ In(<<"exit">>, text) THEN "Sell"
                ELSE IF In(<<"new">>, text) \/ In(<<"buy">>, text) THEN "Buy"
                ELSE IF In(<<"add">>, text) \/ (text # <<>> /\ text[1] = "+") THEN "Add"
                ELSE IF In(<<"reduce">>, text) \/ (text # <<>> /\ text[1] = "-") THEN "Reduce"
                ELSE "Hold"
        IN  action_type = classified

\* C20: every Activity _parse_activity_cells returns to parse_activities has
\* an action type that is one of Buy, Sell, Add, Reduce, Hold, whatever the
\* action text, the empty one included.
C20_ActionTypeIsOneOfFive ==
    (ac_pc = "done" /\ cell_activity # NoActivity) =>
        cell_activity.action_type \in {"Buy", "Sell", "Add", "Reduce", "Hold"}

(***************************************************************************)
(* Properties of the grouping of cells in parse_activities                 *)
(***************************************************************************)
\* the k-th group of five bare cells, in document order
CellGroup(k) == SubSeq(TdPositions, 5 * k - 4, 5 * k)

\* C21: a trailing group of fewer than five cells gives no Activity and no
\* error: the turn that collects it leaves the Activities emitted before it
\* as they are and the parse goes on to return them; every Activity returned
\* is made of one complete group of five cells, so the number returned never
\* exceeds floor(number of cells / 5).
C21_NoPartialActivity ==
    /\ p_pc = "scan" =>
          /\ 5 * Len(activities) <= Len(TdPositions)
          /\ \A k \in 1..Len(activities) : activities[k].cells = CellGroup(k)
    /\ p_pc = "done" =>
          /\ parse_result = activities
          /\ 5 * Len(parse_result) <= Len(TdPositions)
          /\ \A k \in 1..Len(parse_result) :
                /\ Len(parse_result[k].cells) = 5
                /\ parse_result[k].cells = CellGroup(k)

\* seven cells: one Activity from the first five, the trailing two give none
C21_Witness ==
    /\ p_pc = "done"
    /\ Len(TdPositions) = 7
    /\ Len(parse_result) = 1
    /\ parse_result[1].cells = CellGroup(1)

\* the recognisable quarter headers before position pos, in document order
HeadersBefore(pos) ==
    SelectSeq([k \in 1..(pos - 1) |-> k],
              LAMBDA k : /\ html.elements[k].class = "q_chg"
                         /\ QuarterMatch(html.elements[k].text) # <<>>)

\* the label of the nearest recognisable header before position pos
NearestLabel(pos) ==
    LET hs == HeadersBefore(pos)
    IN  IF hs = <<>> THEN "Unknown"
        ELSE LET m == QuarterMatch(html.elements[hs[Len(hs)]].text)
             IN  m[1] \o " " \o m[2]

\* C27: a quarter header is never passed over and a group of five cells never
\* spans one: no header row lies between the first and the fifth cell of an
\* Activity, and every Activity carries the label of the nearest header that
\* precedes all five of its cells.
C27_GroupNeverSpansHeader ==
    p_pc = "done" =>
        \A k \in 1..Len(parse_result) :
            LET cells == parse_result[k].cells
            IN  /\ \A pos \in cells[1]..cells[5] : html.elements[pos].class # "q_chg"
                /\ HeadersBefore(cells[1]) # <<>> =>
                      parse_result[k].date = NearestLabel(cells[1])

(***************************************************************************)
(* Properties of parse_managers_list                                       *)
(***************************************************************************)
\* does the anchor point to a holdings page
IsHoldingsLink(link) ==
    \E k \in 1..(Len(link.href) - 1) :
        link.href[k] = "/m/holdings.php?" /\ link.href[k + 1] = "m="

\* the value of the m parameter of a holdings link
CodeOf(link) ==
    LET k == CHOOSE n \in 1..(Len(link.href) - 1) : link.href[n] = "m="
    IN  link.href[k + 1]

\* places of the holdings links that are the first with their code
FirstOccurrences ==
    SelectSeq([k \in 1..Len(links) |-> k],
              LAMBDA k : /\ IsHoldingsLink(links[k])
                         /\ \A n \in 1..(k - 1) :
                               IsHoldingsLink(links[n]) => CodeOf(links[n]) # CodeOf(links[k]))

\* the words of a text without the blanks at its ends
Trimmed(text) ==
    LET solid == { k \in 1..Len(text) : text[k] # " " }
    IN  IF solid = {} THEN <<>>
        ELSE SubSeq(text, CHOOSE a \in solid : \A b \in solid : a <= b,
                          CHOOSE a \in solid : \A b \in solid : b <= a)

DataRows == { k \in 1..Len(hd_page.rows) : hd_page.rows[k].n >= 8 }
NoTickerLink == { k \in DataRows : ~hd_page.rows[k].stock.link }

\* C23: every data row whose stock cell has no ticker link gives no Holding
\* and one logged warning; every other data row is parsed into a Holding; the
\* length of the returned list is the number of data rows minus the number of
\* rows skipped.
C23_RowsWithoutTickerSkipped ==
    (hd_pc = "done" /\ hd_page.grid) =>
        LET returned == hd_returned[Len(hd_returned)]
        IN  /\ \A k \in NoTickerLink : \A h \in 1..Len(returned) : returned[h].row # k
            /\ Len(SelectSeq(hd_log, LAMBDA level : level = "warning"))
                  = Cardinality(NoTickerLink)
            /\ Len(returned) = Cardinality(DataRows) - Cardinality(NoTickerLink)

\* C24: two calls of parse_holdings_with_dates on the same page and manager
\* code return the same list, reporting_date and reporting_quarter of every
\* record included, whatever the wall-clock time of each call.
C24_HoldingsParseDeterministic ==
    Len(hd_returned) = 2 => hd_returned[1] = hd_returned[2]

(***************************************************************************)
(* Properties of the numeric cell parsers                                  *)
(***************************************************************************)
\* a currency text: an optional leading "$", digits in groups separated by
\* single commas, and an optional point followed by digits
WellFormedCurrency(text) ==
    LET points == { k \in 1..Len(text) : text[k] = "." }
    IN  /\ \A k \in 1..Len(text) :
              /\ text[k] \in Digits \cup {"$", ",", "."}
              /\ text[k] = "$" => k = 1
              /\ text[k] \in {",", "."} =>
                    /\ k > 1 /\ text[k - 1] \in Digits
                    /\ k < Len(text) /\ text[k + 1] \in Digits
              /\ text[k] = "," => \A q \in points : k < q
        /\ Cardinality(points) <= 1
        /\ \E k \in 1..Len(text) : text[k] \in Digits

\* the number a currency text stands for: its digits, the last d of them
\* after the point
CurrencyValue(text) ==
    LET points == { k \in 1..Len(text) : text[k] = "." }
        d == IF points = {} THEN 0 ELSE Len(text) - (CHOOSE k \in points : TRUE)
    IN  Normal([mant |-> IntOf(SelectSeq(text, LAMBDA c : c \in Digits)), scale |-> d])

OnePerManagerAndTicker(holdings) ==
    \A a, b \in 1..Len(holdings) :
        (holdings[a].manager_id = holdings[b].manager_id
           /\ holdings[a].symbol = holdings[b].symbol) => a = b

\* C26: the holdings a completed crawl returns, and those it has persisted,
\* hold no two records with the same manager code and the same ticker,
\* whatever rows the holdings pages have.
C26_OneHoldingPerManagerTicker ==
    (c_pc = "idle" /\ result # NoResult /\ ~result.from_cache /\ result.managers # <<>>) =>
        /\ OnePerManagerAndTicker(result.holdings)
        /\ OnePerManagerAndTicker(LoadHoldings)

\* the records of manager m in a flat file
RecordsOf(file, m) == SelectSeq(LoadList(file), LAMBDA r : r.manager_id = m)

\* C28: whenever save_holdings (save_activities) has completed, every shard
\* file holdings_by_manager/m.json (history_by_manager/m.json) that exists
\* holds exactly the records of manager m in the flat collection saved last;
\* a manager without records in the latest save has no shard with records of
\* an earlier save.
C28_ShardsAgreeWithFlat ==
    /\ holdings_file # NoFile =>
          \A m \in ManagerIds :
              holdings_by_manager[m] # NoFile =>
                  /\ holdings_by_manager[m].data = RecordsOf(holdings_file, m)
                  /\ RecordsOf(holdings_file, m) # <<>>
    /\ activities_file # NoFile =>
          \A m \in ManagerIds :
              history_by_manager[m] # NoFile =>
                  /\ history_by_manager[m].data = RecordsOf(activities_file, m)
                  /\ RecordsOf(activities_file, m) # <<>>

\* are the three collections on disk those of one save, with the counts the
\* metadata gives
SameSave ==
    /\ metadata_file.num_managers = Len(LoadManagers)
    /\ metadata_file.num_holdings = Len(LoadHoldings)
    /\ metadata_file.num_activities = Len(LoadActivities)
    /\ \A k \in 1..Len(LoadHoldings) :
          \E n \in 1..Len(LoadManagers) : LoadManagers[n] = LoadHoldings[k].manager_id
    /\ \A k \in 1..Len(LoadActivities) :
          \E n \in 1..Len(LoadManagers) : LoadManagers[n] = LoadActivities[k].manager_id

\* C29: after the process was terminated at any step of a crawl, between the
\* file writes of one save included, a metadata.json that is present and
\* valid goes with a managers.json, holdings.json and history.json of the
\* same save, and its counts are the sizes of the three collections.
C29_ConsistentAtEveryCrashPoint ==
    (restarts > 0 /\ c_pc = "idle" /\ IsStructCacheValid) => SameSave

\* a save of a run that found no manager is in progress
SavingEmptyRoster ==
    /\ c_pc \in {"save_managers", "save_holdings", "save_activities", "save_metadata"}
    /\ managers = <<>>

\* C30: a run whose roster fetch fails or finds no manager leaves
\* managers.json, holdings.json, history.json and metadata.json as they were
\* before the run, here for main with --skip-enrichment over a cache
\* directory that holds the managers of an earlier run.
C30_EmptyRosterLeavesFilesAlone ==
    [][ (SavingEmptyRoster /\ LoadManagers # <<>>) =>
            UNCHANGED <<managers_file, holdings_file, activities_file, metadata_file>> ]_vars

====
